---- MODULE Spec2Model ----
(***************************************************************************)
(* BubuOS media playback engine: the media player (apps/mediaplayer) and   *)
(* the internet radio (apps/radio), each supervising one external mpv      *)
(* process and talking to it over a JSON IPC socket.                       *)
(*                                                                         *)
(* Spec       the shell opening the media player or the radio, and the     *)
(*            state machines of both, one action per handler               *)
(* SpecQuery  one _mpv_get call, statement by statement, against a peer    *)
(* SpecQueryFair  SpecQuery with the call and the clock never stalling     *)
(* SpecNext   _next_index as a function of queue, cursor and shuffle       *)
(* SpecPlay   _play applied to every index of every queue                  *)
(* SpecElapsed  the position estimator _get_elapsed against the clock      *)
(* SpecStore  the playlist handlers over the playlists directory           *)
(* SpecDetail  playback started from the playlist view                     *)
(* SpecLeave  the ways the active player is left: Back, keyboard, quit     *)
(* SpecAuto   unattended playback of a queue, with fairness                *)
(***************************************************************************)
EXTENDS Integers, Sequences, FiniteSets, TLC

\* ------------------------------------------------------------------------
\* Bounds of the model
\* ------------------------------------------------------------------------

\* engine processes that may be alive with no handle left in the player
MaxOrphans == 1

\* clock ticks a run of SpecQuery starts queries in
MaxTicks == 2

\* lines the socket buffers between two recv calls
MaxInbox == 2

\* lines one _mpv_get call accumulates in buf
MaxBuf == 2

\* largest cached position a forward seek may still start from
MaxPos == 0

\* ------------------------------------------------------------------------
\* Program constants
\* ------------------------------------------------------------------------

VIEW_LIBRARY == 0
VIEW_TRACKS == 1
VIEW_PLAYLIST == 2
VIEW_NOW_PLAYING == 3

AUDIO_EXTENSIONS == {".mp3", ".wav", ".ogg", ".flac", ".aac", ".wma", ".m4a"}
VIDEO_EXTENSIONS == {".mp4", ".avi", ".mkv", ".webm", ".mov"}
MEDIA_EXTENSIONS == AUDIO_EXTENSIONS \cup VIDEO_EXTENSIONS

\* int(time.time() * 10000) % 99999 in _mpv_get
RidModulus == 99999

\* settimeout(0.08) and deadline = time.time() + 0.08, in units of 1/10000 s
QueryTimeout == 800

\* range(20) in MediaPlayerApp._mpv_connect, range(30) in RadioApp._mpv_connect
ConnectAttempts == 20
RadioConnectAttempts == 30

\* python's None, as a string and as the value of a property query
None == "None"
NoValue == 0 - 1

\* no _mpv_connect was called
NotTried == [attempts |-> 0, ok |-> FALSE]

\* ------------------------------------------------------------------------
\* The file system the player browses (fixed during a run)
\* ------------------------------------------------------------------------

\* a path string; rec marks the value that is not a path string but the
\* structured record (a JSON object) written for that path
File(d, n, e, h) == [dir |-> d, name |-> n, ext |-> e, dot |-> h, rec |-> FALSE]

\* sorted(os.listdir(directory)) for each directory
ListDir(d) ==
    CASE d = "music" -> << File("music", "a1", ".mp3", FALSE),
                           File("music", "a2", ".ogg", FALSE),
                           File("music", "cover", ".jpg", FALSE),
                           File("music", "v1", ".mp4", FALSE) >>
      [] d = "music/sub" -> << File("music/sub", ".tmp", ".mp3", TRUE),
                               File("music/sub", "b1", ".mp3", FALSE) >>
      [] OTHER -> << >>

\* the i-th entry of a directory
Track(d, i) == ListDir(d)[i]

\* the browsing contexts backed by a directory: All Music and the folders
Directories == {"music", "music/sub"}

\* os.path.isfile(p)
IsFile(p) == \E d \in Directories : \E i \in 1..Len(ListDir(d)) : ListDir(d)[i] = p

\* saved playlists (load_playlist of each stored file); "gone" was deleted
\* from disk after it was added
Gone == File("music", "gone", ".mp3", FALSE)
SavedPlaylists == {"mix", "stale"}
StoredTracks(n) ==
    CASE n = "mix" -> << ListDir("music/sub")[2], Gone, ListDir("music")[4] >>
      [] n = "stale" -> << Gone >>
      [] OTHER -> << >>

\* ------------------------------------------------------------------------
\* The playlists directory (playlists.py): a store maps the name of each
\* playlist file to its content.  form is what json.load makes of the file:
\* "object" a JSON object with a "tracks" list, "no_tracks" a JSON object
\* without that key, "array" a JSON value that is not an object (a bare list
\* of paths), "text" not JSON at all
\* ------------------------------------------------------------------------

\* the file save_playlist writes for a track list
Object(tracks) == [form |-> "object", tracks |-> tracks]

\* the structured record of a path: a JSON object, not a string
Record(p) == [p EXCEPT !.rec = TRUE]

\* playlists.list_playlists
list_playlists(st) == DOMAIN st

\* playlists.load_playlist: OSError (no such file) and JSONDecodeError give
\* [], a missing key gives the default of data.get, and data.get on a value
\* that is not a dict raises AttributeError, which is not caught
load_playlist(st, name) ==
    IF name \notin DOMAIN st THEN [fault |-> None, tracks |-> << >>]
    ELSE CASE st[name].form = "object" ->
                  [fault |-> None, tracks |-> st[name].tracks]
           [] st[name].form = "no_tracks" -> [fault |-> None, tracks |-> << >>]
           [] st[name].form = "text" -> [fault |-> None, tracks |-> << >>]
           [] st[name].form = "array" ->
                  [fault |-> "AttributeError", tracks |-> << >>]

\* playlists.save_playlist
save_playlist(st, name, tracks) ==
    [n \in DOMAIN st \cup {name} |-> IF n = name THEN Object(tracks) ELSE st[n]]

\* playlists.delete_playlist
delete_playlist(st, name) == [n \in DOMAIN st \ {name} |-> st[n]]

\* the playlists directory as the player finds it
FoundStore == [n \in SavedPlaylists |-> Object(StoredTracks(n))]

\* ------------------------------------------------------------------------
\* State
\* ------------------------------------------------------------------------

VARIABLES
    playlist,          \* MediaPlayerApp.playlist: the working queue (paths)
    current_index,     \* cursor into the queue, 0-based, -1 = nothing loaded
    playing,
    paused,
    shuffle,
    view,
    return_view,       \* _return_view
    opened_from_file,  \* _opened_from_file
    pl_tracks,         \* _pl_tracks
    mpv_proc,          \* _mpv_proc: None or the state of the Popen's process
    mpv_sock,          \* _mpv_sock: None or "open" (the peer is mpv_proc)
    video_proc,        \* _video_proc: None or the state of the Popen's process
    cached_pos,        \* _cached_pos
    cached_dur,        \* _cached_dur
    orphans,           \* live engine processes whose handle was dropped
    meta_title,        \* RadioApp._meta_title
    app_stack,         \* System.app_stack
    fault,             \* None, the exception that left a handler, or "hang"
    op,                \* the handler (or environment step) that ran last
    sent,              \* the sendall calls of that step, with their outcome
    launched,          \* media paths that step passed to Popen
    connected,         \* the result of that step's _mpv_connect, if any
    now,               \* time.time(), in units of 1/10000 s
    peer,              \* the engine's end of the socket: up, closed or reset
    inbox,             \* lines the engine wrote that were not yet received
    asked,             \* request_ids of the queries delivered to the engine
    q_pc,              \* _mpv_get: the statement the call is at
    q_rid,             \* _mpv_get: rid
    q_deadline,        \* _mpv_get: deadline
    q_buf,             \* _mpv_get: buf, as the lines received
    q_result,          \* the value the last _mpv_get returned
    pos_query_time,    \* _pos_query_time: when _cached_pos was sampled
    last_query_tick,   \* _last_query_tick: the last time-pos query attempt
    e_ret,             \* the value the last _get_elapsed call returned
    e_at,              \* when that call was made; NoValue when none was,
                       \* or a seek or pause toggle came after it
    e_gap,             \* the time between that call and the one before it,
                       \* NoValue when e_at was NoValue at the call
    store,             \* the files of the playlists directory: name -> content
    pl_name            \* _pl_name (and _pl_path, which is derived from it)

vars == << playlist, current_index, playing, paused, shuffle, view,
           return_view, opened_from_file, pl_tracks, pl_name, mpv_proc, mpv_sock, video_proc, cached_pos,
           cached_dur, orphans, meta_title, app_stack, fault, op, sent,
           launched, connected, now, peer, inbox, asked, q_pc, q_rid,
           q_deadline, q_buf, q_result, pos_query_time, last_query_tick,
           e_ret, e_at, e_gap, store, pl_name >>

\* the position estimator's timestamps and the record of its last result
tvars == << pos_query_time, last_query_tick, e_ret, e_at, e_gap >>

\* the state of one _mpv_get call and of the socket under it
qvars == << now, peer, inbox, asked, q_pc, q_rid, q_deadline, q_buf, q_result >>

\* ------------------------------------------------------------------------
\* Operating-system processes.  A Popen handle is modelled by the state of
\* its process: "running" or "exited".  A process whose handle was dropped
\* while it was still alive is counted in orphans until it exits.
\* ------------------------------------------------------------------------

\* Popen.poll() is not None
Polled(proc) == proc = "exited"

NoOrphans == [audio |-> 0, video |-> 0]

\* processes alive in the operating system
AliveCount(r) ==
    (IF r.mpv_proc = "running" THEN 1 ELSE 0)
    + (IF r.video_proc = "running" THEN 1 ELSE 0)
    + r.orphans.audio + r.orphans.video

\* ------------------------------------------------------------------------
\* The handler-local view of the object: a record of the fields, threaded
\* through the method calls of one handler
\* ------------------------------------------------------------------------

Self ==
    [playlist |-> playlist, current_index |-> current_index,
     playing |-> playing, paused |-> paused, shuffle |-> shuffle,
     view |-> view, return_view |-> return_view,
     opened_from_file |-> opened_from_file, pl_tracks |-> pl_tracks,
     pl_name |-> pl_name,
     mpv_proc |-> mpv_proc, mpv_sock |-> mpv_sock, video_proc |-> video_proc,
     cached_pos |-> cached_pos, cached_dur |-> cached_dur,
     orphans |-> orphans, app_stack |-> app_stack, fault |-> None,
     sent |-> << >>, launched |-> << >>, connected |-> NotTried]

CommitFields(name, r) ==
    /\ playlist' = r.playlist
    /\ current_index' = r.current_index
    /\ playing' = r.playing
    /\ paused' = r.paused
    /\ shuffle' = r.shuffle
    /\ view' = r.view
    /\ return_view' = r.return_view
    /\ opened_from_file' = r.opened_from_file
    /\ pl_tracks' = r.pl_tracks
    /\ pl_name' = r.pl_name
    /\ mpv_proc' = r.mpv_proc
    /\ mpv_sock' = r.mpv_sock
    /\ video_proc' = r.video_proc
    /\ cached_pos' = r.cached_pos
    /\ cached_dur' = r.cached_dur
    /\ orphans' = r.orphans
    /\ r.orphans.audio + r.orphans.video <= MaxOrphans
    /\ app_stack' = r.app_stack
    /\ fault' = r.fault
    /\ sent' = r.sent
    /\ launched' = r.launched
    /\ connected' = r.connected
    /\ op' = name
    /\ UNCHANGED qvars

\* the end of a media player handler
Commit(name, r) ==
    CommitFields(name, r) /\ meta_title' = meta_title /\ UNCHANGED << tvars, store >>

\* ------------------------------------------------------------------------
\* Playback control (apps/mediaplayer/app.py)
\* ------------------------------------------------------------------------

IsVideo(path) == path.ext \in VIDEO_EXTENSIONS

\* _stop without the reset of paused: the variant C3 is tested against
_stop_keeps_paused(r, timeout_expired) ==
    LET r1 == [r EXCEPT !.mpv_sock = None]
        r2 == IF r1.mpv_proc # None
              THEN [r1 EXCEPT !.orphans.audio =
                                  IF r1.mpv_proc = "running" /\ timeout_expired
                                  THEN @ + 1 ELSE @,
                              !.mpv_proc = None]
              ELSE r1
        r3 == IF r2.video_proc # None
              THEN [r2 EXCEPT !.orphans.video =
                                  IF r2.video_proc = "running" THEN @ + 1 ELSE @,
                              !.video_proc = None]
              ELSE r2
    IN [r3 EXCEPT !.playing = FALSE, !.cached_pos = 0, !.cached_dur = 0]

\* MediaPlayerApp._stop.  timeout_expired: wait(timeout=1) raised
\* TimeoutExpired, so the process was sent SIGKILL and its handle dropped
\* without waiting; otherwise it exited within the timeout.  The video
\* process is sent SIGTERM and its handle dropped without waiting.
_stop(r, timeout_expired) ==
    LET r1 == [r EXCEPT !.mpv_sock = None]
        r2 == IF r1.mpv_proc # None
              THEN [r1 EXCEPT !.orphans.audio =
                                  IF r1.mpv_proc = "running" /\ timeout_expired
                                  THEN @ + 1 ELSE @,
                              !.mpv_proc = None]
              ELSE r1
        r3 == IF r2.video_proc # None
              THEN [r2 EXCEPT !.orphans.video =
                                  IF r2.video_proc = "running" THEN @ + 1 ELSE @,
                              !.video_proc = None]
              ELSE r2
    IN [r3 EXCEPT !.playing = FALSE, !.paused = FALSE,
                  !.cached_pos = 0, !.cached_dur = 0]

\* _mpv_connect with one attempt too many (range(21)): the variant C10 is
\* tested against
_mpv_connect_extra(ready_at) ==
    IF ready_at <= ConnectAttempts + 1
    THEN [attempts |-> ready_at, ok |-> TRUE]
    ELSE [attempts |-> ConnectAttempts + 1, ok |-> FALSE]

\* MediaPlayerApp._mpv_connect: up to ConnectAttempts attempts; the engine's
\* socket accepts from attempt number ready_at on.  The result is the
\* number of attempts made and whether the last one connected.
_mpv_connect(ready_at) ==
    IF ready_at <= ConnectAttempts
    THEN [attempts |-> ready_at, ok |-> TRUE]
    ELSE [attempts |-> ConnectAttempts, ok |-> FALSE]

\* outcomes of the environment during one _play
PlayInputs ==
    [spawn_ok : BOOLEAN, ready_at : {1, ConnectAttempts, ConnectAttempts + 1},
     timeout_expired : BOOLEAN, timeout_expired2 : BOOLEAN]

\* the outcomes that make a difference to a _play started from r
PlayInputsFor(r) ==
    {inp \in PlayInputs :
        /\ inp.timeout_expired => r.mpv_proc = "running"
        /\ inp.timeout_expired2 => inp.spawn_ok /\ inp.ready_at > ConnectAttempts
        /\ ~inp.spawn_ok => inp.ready_at = 1}

\* MediaPlayerApp._play
_play(r, index, inp) ==
    IF index < 0 \/ index >= Len(r.playlist) THEN r
    ELSE
    LET r1 == [_stop(r, inp.timeout_expired) EXCEPT !.current_index = index]
        path == r1.playlist[index + 1]
        r2 == [r1 EXCEPT !.launched = Append(@, path)]
    IN IF IsVideo(path)
       THEN IF inp.spawn_ok
            THEN [r2 EXCEPT !.video_proc = "running", !.playing = TRUE]
            ELSE r2
       ELSE IF ~inp.spawn_ok
            THEN [r2 EXCEPT !.fault = "FileNotFoundError"]
            ELSE
            LET c == _mpv_connect(inp.ready_at)
                r3 == [r2 EXCEPT !.mpv_proc = "running", !.connected = c]
            IN IF c.ok
               THEN [r3 EXCEPT !.mpv_sock = "open",
                               !.playing = TRUE,
                               !.paused = FALSE,
                               !.cached_pos = 0,
                               !.cached_dur = 0,
                               !.view = VIEW_NOW_PLAYING]
               ELSE _stop(r3, inp.timeout_expired2)

\* MediaPlayerApp._next_index as a function of its inputs; pick is the
\* element random.choice returns.  Python indices are 0-based.
NoNext == 0 - 1
\* the candidate list without the filter i != current_index: the variant
\* C6 is tested against
CandidatesAll(len, cur) == 0..(len - 1)

\* the indices random.choice draws from
Candidates(len, cur) == {i \in 0..(len - 1) : i # cur}
\* _next_index wrapping around at both ends: the variant C5 is tested against
NextIndexWraps(len, cur, shuf, direction, pick) ==
    IF len = 0 THEN NoNext
    ELSE IF shuf
         THEN IF len = 1 THEN 0 ELSE pick
         ELSE (cur + direction) % len

\* MediaPlayerApp._next_index as a function of queue length, cursor, shuffle
\* flag and direction
NextIndexOf(len, cur, shuf, direction, pick) ==
    IF len = 0 THEN NoNext
    ELSE IF shuf
         THEN IF len = 1 THEN 0 ELSE pick
         ELSE LET nxt == cur + direction
              IN IF 0 <= nxt /\ nxt < len THEN nxt ELSE NoNext

\* the values random.choice(candidates) can return
Picks(len, cur, shuf) ==
    IF shuf /\ len > 1 THEN Candidates(len, cur) ELSE {0}

_next_index(r, direction, pick) ==
    NextIndexOf(Len(r.playlist), r.current_index, r.shuffle, direction, pick)

\* ------------------------------------------------------------------------
\* mpv IPC as the handlers see it.  What one _mpv_get call can do is
\* modelled statement by statement in SpecQuery; here its outcome is an
\* input of the handler.
\* ------------------------------------------------------------------------

\* _mpv_send leaving the channel in place when sendall raised: the variant
\* C9 is tested against
_mpv_send_keeps_channel(r, cmd, send_ok) ==
    IF r.mpv_sock = None THEN r
    ELSE [r EXCEPT !.sent = Append(@, [api |-> "send", cmd |-> cmd, ok |-> send_ok])]

\* MediaPlayerApp._mpv_send and RadioApp._mpv_send; send_ok: sendall did
\* not raise OSError
_mpv_send(r, cmd, send_ok) ==
    IF r.mpv_sock = None THEN r
    ELSE IF send_ok
         THEN [r EXCEPT !.sent = Append(@, [api |-> "send", cmd |-> cmd, ok |-> TRUE])]
         ELSE [r EXCEPT !.sent = Append(@, [api |-> "send", cmd |-> cmd, ok |-> FALSE]),
                        !.mpv_sock = None]

\* the ways a call of _mpv_get on an open channel ends: with the data of the
\* matching reply, with None after the request was written, with None
\* because sendall raised, with an AttributeError, or never
QueryKinds == {"data", "none", "senderr", "AttributeError", "hang"}

\* MediaPlayerApp._mpv_get: the object after the call (the value returned is
\* MpvGetValue)
_mpv_get(r, prop, kind) ==
    LET cmd == <<"get_property", prop>>
    IN IF r.mpv_sock = None THEN r
       ELSE CASE kind \in {"data", "none"} ->
                     [r EXCEPT !.sent = Append(@, [api |-> "get", cmd |-> cmd, ok |-> TRUE])]
              [] kind = "senderr" ->
                     [r EXCEPT !.sent = Append(@, [api |-> "get", cmd |-> cmd, ok |-> FALSE])]
              [] kind = "AttributeError" ->
                     [r EXCEPT !.sent = Append(@, [api |-> "get", cmd |-> cmd, ok |-> TRUE]),
                               !.fault = "AttributeError"]
              [] kind = "hang" -> [r EXCEPT !.fault = "hang"]

MpvGetValue(r, kind, data) ==
    IF r.mpv_sock # None /\ kind = "data" THEN data ELSE NoValue

\* values the engine reports for time-pos and duration
PosReplies == {3}
DurReplies == {9}

\* _get_elapsed that queries time-pos on every call: the variant C23 is
\* tested against
_get_elapsed_every_call(r, due, kind, pos) ==
    IF r.mpv_sock # None
    THEN LET r1 == _mpv_get(r, "time-pos", kind)
             got == MpvGetValue(r, kind, pos)
         IN IF r1.fault # None THEN r1
            ELSE IF got # NoValue THEN [r1 EXCEPT !.cached_pos = got] ELSE r1
    ELSE r

\* MediaPlayerApp._get_elapsed: the object after the call.  due: more than
\* the resync interval has passed since _last_query_tick; kind, pos: the
\* outcome of the time-pos query
_get_elapsed(r, due, kind, pos) ==
    IF r.mpv_sock # None /\ due
    THEN LET r1 == _mpv_get(r, "time-pos", kind)
             got == MpvGetValue(r, kind, pos)
         IN IF r1.fault # None THEN r1
            ELSE IF got # NoValue THEN [r1 EXCEPT !.cached_pos = got] ELSE r1
    ELSE r

\* _get_elapsed returning the cached position without the time since it
\* was sampled: the variant C13 is tested against
ElapsedValueFrozen(r, due, kind, pos, dt) ==
    _get_elapsed(r, due, kind, pos).cached_pos

\* the value _get_elapsed returns; dt is the time since _pos_query_time
ElapsedValue(r, due, kind, pos, dt) ==
    LET r1 == _get_elapsed(r, due, kind, pos)
        resynced == r.mpv_sock # None /\ due /\ MpvGetValue(r, kind, pos) # NoValue
    IN IF r1.paused THEN r1.cached_pos
       ELSE r1.cached_pos + (IF resynced THEN 0 ELSE dt)

\* MediaPlayerApp._get_duration
_get_duration(r, kind, dur) ==
    IF r.cached_dur > 0 THEN r
    ELSE IF r.mpv_sock # None
         THEN LET r1 == _mpv_get(r, "duration", kind)
                  got == MpvGetValue(r, kind, dur)
              IN IF r1.fault # None THEN r1
                 ELSE IF got # NoValue THEN [r1 EXCEPT !.cached_dur = got] ELSE r1
         ELSE r

\* MediaPlayerApp._toggle_pause
_toggle_pause(r, send_ok, due, kind, pos) ==
    IF ~r.playing THEN r
    ELSE LET r1 == _mpv_send(r, <<"cycle", "pause">>, send_ok)
             r2 == [r1 EXCEPT !.paused = ~@]
         IN IF r2.paused
            THEN LET r3 == _get_elapsed(r2, due, kind, pos)
                 IN IF r3.fault # None THEN r3
                    ELSE [r3 EXCEPT !.cached_pos =
                                        ElapsedValue(r2, due, kind, pos, 0)]
            ELSE r2

\* update leaving playing set when the queue has ended: the variant C4 is
\* tested against
update_keeps_playing(r, pick, inp) ==
    LET r1 == IF r.playing /\ r.mpv_proc # None /\ Polled(r.mpv_proc)
              THEN LET r0 == [r EXCEPT !.mpv_sock = None, !.mpv_proc = None]
                       nxt == _next_index(r0, 1, pick)
                   IN IF nxt # NoNext THEN _play(r0, nxt, inp)
                      ELSE [r0 EXCEPT !.view = r0.return_view]
              ELSE r
    IN IF r1.fault # None THEN r1
       ELSE IF r1.video_proc # None /\ Polled(r1.video_proc)
            THEN [r1 EXCEPT !.video_proc = None, !.playing = FALSE]
            ELSE r1

\* MediaPlayerApp.update
update(r, pick, inp) ==
    LET r1 == IF r.playing /\ r.mpv_proc # None /\ Polled(r.mpv_proc)
              THEN LET r0 == [r EXCEPT !.mpv_sock = None, !.mpv_proc = None]
                       nxt == _next_index(r0, 1, pick)
                   IN IF nxt # NoNext THEN _play(r0, nxt, inp)
                      ELSE [r0 EXCEPT !.playing = FALSE, !.paused = FALSE,
                                      !.view = r0.return_view]
              ELSE r
    IN IF r1.fault # None THEN r1
       ELSE IF r1.video_proc # None /\ Polled(r1.video_proc)
            THEN [r1 EXCEPT !.video_proc = None, !.playing = FALSE]
            ELSE r1

\* ------------------------------------------------------------------------
\* Track loading
\* ------------------------------------------------------------------------

Min(a, b) == IF a < b THEN a ELSE b
Max(a, b) == IF a > b THEN a ELSE b

\* ScrollList.set_items and ScrollList.handle_input keep the selected row
\* of a list of n > 0 items within the list; which row the user has moved
\* to when CONFIRM arrives is an input of the handler
Selectable(n) == 0..(n - 1)

IsMedia(f) == ~f.dot /\ f.ext \in MEDIA_EXTENSIONS

\* MediaPlayerApp._load_tracks_from_dir
_load_tracks_from_dir(r, directory) ==
    LET tracks == SelectSeq(ListDir(directory), IsMedia)
    IN [r EXCEPT !.playlist = tracks]

\* MediaPlayerApp._load_playlist_detail
\* (os.path.basename of an entry that is not a string raises TypeError)
_load_playlist_detail(st, r, name) ==
    LET l == load_playlist(st, name)
        r1 == [r EXCEPT !.pl_name = name]
    IN IF l.fault # None THEN [r1 EXCEPT !.fault = l.fault]
       ELSE IF \E i \in 1..Len(l.tracks) : l.tracks[i].rec
            THEN [r1 EXCEPT !.pl_tracks = l.tracks, !.fault = "TypeError"]
            ELSE [r1 EXCEPT !.pl_tracks = l.tracks]

\* index (0-based) of the first occurrence of target in q, or dflt
FirstIndexOf(q, target, dflt) ==
    IF \E i \in 1..Len(q) : q[i] = target
    THEN (CHOOSE i \in 1..Len(q) :
              q[i] = target /\ \A j \in 1..(i - 1) : q[j] # target) - 1
    ELSE dflt

\* _play_from_playlist_detail that starts the queue at the selected row's
\* number: the variant C18 is tested against
_play_from_playlist_detail_same_index(r, index, inp) ==
    LET valid == SelectSeq(r.pl_tracks, IsFile)
    IN IF valid = << >> THEN r
       ELSE LET r1 == [r EXCEPT !.playlist = valid]
                play_idx == IF index < Len(valid) THEN index ELSE 0
            IN _play([r1 EXCEPT !.return_view = VIEW_PLAYLIST], play_idx, inp)

\* MediaPlayerApp._play_from_playlist_detail
_play_from_playlist_detail(r, index, inp) ==
    LET valid == SelectSeq(r.pl_tracks, IsFile)
    IN IF valid = << >> THEN r
       ELSE LET r1 == [r EXCEPT !.playlist = valid]
                play_idx == IF index < Len(r.pl_tracks)
                            THEN FirstIndexOf(valid, r.pl_tracks[index + 1], 0)
                            ELSE 0
            IN _play([r1 EXCEPT !.return_view = VIEW_PLAYLIST], play_idx, inp)

\* ------------------------------------------------------------------------
\* The application stack (main.py)
\* ------------------------------------------------------------------------

Top(stack) == IF stack = << >> THEN None ELSE stack[Len(stack)]

\* System.back followed by the on_exit of the popped media player
back(r, timeout_expired) ==
    IF Len(r.app_stack) > 1
    THEN [_stop(r, timeout_expired) EXCEPT
              !.app_stack = SubSeq(r.app_stack, 1, Len(r.app_stack) - 1)]
    ELSE r

\* the handlers of the media player run while it is the active app and the
\* main loop is alive
Active == fault = None /\ Top(app_stack) = "mediaplayer"

\* ------------------------------------------------------------------------
\* Media player: construction
\* ------------------------------------------------------------------------

\* the fields as MediaPlayerApp.__init__ sets them before looking at file_path
Fresh ==
    [playlist |-> << >>, current_index |-> -1, playing |-> FALSE,
     paused |-> FALSE, shuffle |-> FALSE, view |-> VIEW_LIBRARY,
     return_view |-> VIEW_LIBRARY, opened_from_file |-> FALSE,
     pl_tracks |-> << >>, pl_name |-> None,
     mpv_proc |-> None, mpv_sock |-> None, video_proc |-> None,
     cached_pos |-> 0, cached_dur |-> 0, orphans |-> NoOrphans,
     app_stack |-> <<"shell">>, fault |-> None,
     sent |-> << >>, launched |-> << >>, connected |-> NotTried]

\* Shell._open_file: the extensions opened with the media player
SHELL_MEDIA == {".mp3", ".wav", ".ogg", ".flac", ".mp4", ".avi", ".mkv"}

\* files the file manager lists (it hides dot files) and hands to the player
OpenableFiles ==
    {f \in UNION {{ListDir(d)[i] : i \in 1..Len(ListDir(d))} : d \in Directories} :
        ~f.dot /\ f.ext \in SHELL_MEDIA}

\* MediaPlayerApp.__init__ with a file_path
InitFromFile(r0, file_path, inp) ==
    LET r1 == _load_tracks_from_dir([r0 EXCEPT !.opened_from_file = TRUE],
                                    file_path.dir)
        i == FirstIndexOf(r1.playlist, file_path, -1)
        r2 == IF i >= 0 THEN [r1 EXCEPT !.current_index = i] ELSE r1
    IN IF r2.current_index >= 0 THEN _play(r2, r2.current_index, inp) ELSE r2

Constructed(r) ==
    /\ playlist = r.playlist
    /\ current_index = r.current_index
    /\ playing = r.playing
    /\ paused = r.paused
    /\ shuffle = r.shuffle
    /\ view = r.view
    /\ return_view = r.return_view
    /\ opened_from_file = r.opened_from_file
    /\ pl_tracks = r.pl_tracks
    /\ pl_name = r.pl_name
    /\ mpv_proc = r.mpv_proc
    /\ mpv_sock = r.mpv_sock
    /\ video_proc = r.video_proc
    /\ cached_pos = r.cached_pos
    /\ cached_dur = r.cached_dur
    /\ orphans = r.orphans
    /\ meta_title = ""
    /\ app_stack = r.app_stack
    /\ fault = r.fault
    /\ sent = r.sent
    /\ launched = r.launched
    /\ connected = r.connected
    /\ op = "boot"

\* no _mpv_get call is in progress at time t
QueryIdle(t) ==
    /\ now = t /\ peer = "up" /\ inbox = << >> /\ asked = {}
    /\ q_pc = "idle" /\ q_rid = 0 /\ q_deadline = 0 /\ q_buf = << >>
    /\ q_result = NoValue

\* the position estimator as __init__ leaves it; elapsed was never asked
\* the playlists directory holds the saved playlists
StoreAsFound == store = FoundStore

NoEstimate ==
    /\ pos_query_time = 0 /\ last_query_tick = 0
    /\ e_ret = 0 /\ e_at = NoValue /\ e_gap = NoValue

\* System.__init__: the shell is the root app
Init == Constructed(Fresh) /\ QueryIdle(0) /\ NoEstimate /\ StoreAsFound

\* System.open_app: the app on top gets on_exit (a no-op for the shell) and
\* the new app is pushed
open_app(r, app) == [r EXCEPT !.app_stack = Append(@, app)]

ShellActive == fault = None /\ Top(app_stack) = "shell"

\* the new player object, in the operating system the old ones left behind
FreshIn == [Fresh EXCEPT !.orphans = orphans, !.app_stack = app_stack]

\* Shell: open the media player from the menu
ShellOpenMediaPlayer ==
    /\ ShellActive
    /\ meta_title' = "" /\ UNCHANGED << tvars, store >>
    /\ CommitFields("open_mediaplayer", open_app(FreshIn, "mediaplayer"))

\* Shell: open a media file from the file manager; an exception in the
\* constructor leaves the shell on top
ShellOpenFile ==
    /\ ShellActive
    /\ meta_title' = "" /\ UNCHANGED << tvars, store >>
    /\ \E f \in OpenableFiles : \E inp \in PlayInputsFor(FreshIn) :
         LET r == InitFromFile(FreshIn, f, inp)
         IN CommitFields("open_file",
                   IF r.fault # None THEN r ELSE open_app(r, "mediaplayer"))

\* ------------------------------------------------------------------------
\* Media player: one action per (view, input action) handler
\* ------------------------------------------------------------------------

\* the rows of the library list: All Music, the playlists, the folders;
\* empty when the player was opened on a file (_load_library did not run)
LibraryEntries ==
    IF opened_from_file THEN {}
    ELSE {<<"all", "music">>}
         \cup {<<"pl", n>> : n \in list_playlists(store)}
         \cup {<<"dir", d>> : d \in Directories \ {"music"}}

\* MediaPlayerApp._load_library: load_playlist of every file, for the counts
_load_library(st, r) ==
    IF \E n \in list_playlists(st) : load_playlist(st, n).fault # None
    THEN [r EXCEPT !.fault = "AttributeError"]
    ELSE r

\* _load_library, then self.view = VIEW_LIBRARY
ToLibrary(st, r) ==
    LET r1 == _load_library(st, r)
    IN IF r1.fault # None THEN r1 ELSE [r1 EXCEPT !.view = VIEW_LIBRARY]

\* MediaPlayerApp._open_library_item on row e
_open_library_item(st, r, e) ==
    IF e[1] = "pl"
    THEN LET r1 == _load_playlist_detail(st, r, e[2])
         IN IF r1.fault # None THEN r1 ELSE [r1 EXCEPT !.view = VIEW_PLAYLIST]
    ELSE [_load_tracks_from_dir(r, e[2]) EXCEPT !.view = VIEW_TRACKS]

\* _handle_library, CONFIRM: _open_library_item on the selected row
LibraryConfirm ==
    /\ Active /\ view = VIEW_LIBRARY
    /\ \E e \in LibraryEntries :
         Commit("library_confirm", _open_library_item(store, Self, e))

\* _handle_library, CONFIRM with no row to open
LibraryConfirmNothing ==
    /\ Active /\ view = VIEW_LIBRARY /\ LibraryEntries = {}
    /\ Commit("library_confirm", Self)

\* _handle_library, BACK
LibraryBack ==
    /\ Active /\ view = VIEW_LIBRARY
    /\ \E t1 \in BOOLEAN :
         Commit("library_back", back(_stop(Self, t1), FALSE))

\* _handle_library, MENU
LibraryMenu ==
    /\ Active /\ view = VIEW_LIBRARY
    /\ Commit("library_menu",
              IF playing
              THEN [Self EXCEPT !.return_view = VIEW_LIBRARY,
                                !.view = VIEW_NOW_PLAYING]
              ELSE Self)

\* _handle_tracks, CONFIRM
TracksConfirm ==
    /\ Active /\ view = VIEW_TRACKS
    /\ IF playlist # << >>
       THEN \E selected \in Selectable(Len(playlist)) :
            \E inp \in PlayInputsFor(Self) :
              Commit("tracks_confirm",
                     _play([Self EXCEPT !.return_view = VIEW_TRACKS],
                           selected, inp))
       ELSE Commit("tracks_confirm", Self)

\* _handle_tracks, BACK
TracksBack ==
    /\ Active /\ view = VIEW_TRACKS
    /\ Commit("tracks_back", ToLibrary(store, Self))

\* _handle_playlist_detail, CONFIRM
PlaylistConfirm ==
    /\ Active /\ view = VIEW_PLAYLIST
    /\ IF pl_tracks # << >>
       THEN \E selected \in Selectable(Len(pl_tracks)) :
            \E inp \in PlayInputsFor(Self) :
              Commit("playlist_confirm",
                     _play_from_playlist_detail(Self, selected, inp))
       ELSE Commit("playlist_confirm", Self)

\* _handle_playlist_detail, BACK
PlaylistBack ==
    /\ Active /\ view = VIEW_PLAYLIST
    /\ Commit("playlist_back", ToLibrary(store, Self))

\* _handle_playlist_detail, SYSTEM
PlaylistSystem ==
    /\ Active /\ view = VIEW_PLAYLIST
    /\ Commit("playlist_system",
              IF playing
              THEN [Self EXCEPT !.return_view = VIEW_PLAYLIST,
                                !.view = VIEW_NOW_PLAYING]
              ELSE Self)

\* _handle_now_playing, CONFIRM
NowPlayingConfirm ==
    /\ Active /\ view = VIEW_NOW_PLAYING
    /\ \E send_ok, due \in BOOLEAN : \E pos \in PosReplies :
       \E kind \in (IF mpv_sock # None /\ due THEN QueryKinds ELSE {"none"}) :
         Commit("toggle_pause", _toggle_pause(Self, send_ok, due, kind, pos))

\* _handle_now_playing, BACK
NowPlayingBack ==
    /\ Active /\ view = VIEW_NOW_PLAYING
    /\ \E t1 \in BOOLEAN :
         Commit("now_playing_back",
                IF opened_from_file THEN back(_stop(Self, t1), FALSE)
                ELSE [Self EXCEPT !.view = return_view])

\* _handle_now_playing, MENU
NowPlayingMenu ==
    /\ Active /\ view = VIEW_NOW_PLAYING
    /\ \E t1 \in BOOLEAN :
         Commit("now_playing_menu",
                LET r1 == _stop(Self, t1)
                IN IF opened_from_file THEN back(r1, FALSE)
                   ELSE [r1 EXCEPT !.view = return_view])

\* _handle_now_playing, DELETE
NowPlayingShuffle ==
    /\ Active /\ view = VIEW_NOW_PLAYING
    /\ Commit("toggle_shuffle", [Self EXCEPT !.shuffle = ~@])

\* _handle_now_playing, PAGE_UP (direction -1) and PAGE_DOWN (direction 1)
NowPlayingSkip ==
    /\ Active /\ view = VIEW_NOW_PLAYING
    /\ \E direction \in {-1, 1} : \E inp \in PlayInputsFor(Self) :
       \E pick \in Picks(Len(playlist), current_index, shuffle) :
         Commit(IF direction = 1 THEN "next" ELSE "prev",
                LET nxt == _next_index(Self, direction, pick)
                IN IF nxt # NoNext THEN _play(Self, nxt, inp) ELSE Self)

\* the seek that moves the cached position below 0: the variant C25 is
\* tested against
_seek_unclamped(r, delta, send_ok) ==
    [_mpv_send(r, <<"seek", delta>>, send_ok) EXCEPT !.cached_pos = @ + delta]

\* _handle_now_playing, LEFT and RIGHT: the seek by delta seconds
_seek(r, delta, send_ok) ==
    [_mpv_send(r, <<"seek", delta>>, send_ok) EXCEPT
         !.cached_pos = IF delta < 0 THEN Max(0, @ + delta) ELSE @ + delta]

\* _handle_now_playing, LEFT
NowPlayingSeekBack ==
    /\ Active /\ view = VIEW_NOW_PLAYING
    /\ \E send_ok \in BOOLEAN :
         Commit("seek_back", _seek(Self, -10, send_ok))

\* _handle_now_playing, RIGHT
NowPlayingSeekForward ==
    /\ Active /\ view = VIEW_NOW_PLAYING /\ cached_pos <= MaxPos
    /\ \E send_ok \in BOOLEAN :
         Commit("seek_forward", _seek(Self, 10, send_ok))

\* System.run: the update of the active app, once per frame
UpdateTick ==
    /\ Active
    /\ IF playing /\ mpv_proc # None /\ Polled(mpv_proc)
       THEN \E inp \in PlayInputsFor(Self) :
            \E pick \in Picks(Len(playlist), current_index, shuffle) :
              Commit("update", update(Self, pick, inp))
       ELSE \E inp \in {i \in PlayInputsFor(Self) : i.spawn_ok /\ i.ready_at = 1} :
              Commit("update", update(Self, 0, inp))

\* System.run: draw of the active app; _draw_now_playing asks the position
\* estimator for elapsed and duration
Draw ==
    /\ Active /\ view = VIEW_NOW_PLAYING
    /\ \E due \in BOOLEAN :
       \E k1 \in (IF mpv_sock # None /\ due THEN QueryKinds ELSE {"none"}) :
       \E k2 \in (IF mpv_sock # None /\ cached_dur = 0 THEN QueryKinds ELSE {"none"}) :
       \E pos \in PosReplies : \E dur \in DurReplies :
         Commit("draw",
                LET r1 == _get_elapsed(Self, due, k1, pos)
                IN IF r1.fault # None THEN r1 ELSE _get_duration(r1, k2, dur))

\* System.run, Action.QUIT: shutdown pops every app and calls its on_exit
Shutdown ==
    /\ Active
    /\ \E t1 \in BOOLEAN :
         Commit("shutdown", [_stop(Self, t1) EXCEPT !.app_stack = << >>])

\* the operating system: the process of the audio handle exits (end of
\* track, crash, external kill)
AudioProcExit ==
    /\ mpv_proc = "running"
    /\ mpv_proc' = "exited"
    /\ op' = "audio_exit"
    /\ sent' = << >> /\ launched' = << >> /\ connected' = NotTried
    /\ UNCHANGED << playlist, current_index, playing, paused, shuffle, view,
                    return_view, opened_from_file, pl_tracks, pl_name,
                    mpv_sock, video_proc, cached_pos,
                    cached_dur, orphans, meta_title, app_stack, fault, qvars, tvars, store >>

\* the operating system: the process of the video handle exits
VideoProcExit ==
    /\ video_proc = "running"
    /\ video_proc' = "exited"
    /\ op' = "video_exit"
    /\ sent' = << >> /\ launched' = << >> /\ connected' = NotTried
    /\ UNCHANGED << playlist, current_index, playing, paused, shuffle, view,
                    return_view, opened_from_file, pl_tracks, pl_name,
                    mpv_proc, mpv_sock, cached_pos,
                    cached_dur, orphans, meta_title, app_stack, fault, qvars, tvars, store >>

\* the operating system: a signalled process without handle exits
OrphanExit ==
    /\ \E k \in {"audio", "video"} :
         /\ orphans[k] > 0
         /\ orphans' = [orphans EXCEPT ![k] = @ - 1]
    /\ op' = "orphan_exit"
    /\ sent' = << >> /\ launched' = << >> /\ connected' = NotTried
    /\ UNCHANGED << playlist, current_index, playing, paused, shuffle, view,
                    return_view, opened_from_file, pl_tracks, pl_name,
                    mpv_proc, mpv_sock, video_proc, cached_pos,
                    cached_dur, meta_title, app_stack, fault, qvars, tvars, store >>

\* ------------------------------------------------------------------------
\* Internet radio (apps/radio/app.py)
\* ------------------------------------------------------------------------

STATIONS ==
    << "Lofi Hip Hop", "Groove Salad", "Drone Zone", "Jazz24",
       "Classic FM", "NTS Radio", "BBC Radio 1", "KEXP" >>

\* values the engine reports for media-title; the stream URL is reported
\* until the stream sends a title
TitleReplies == {"Song", "http://stream", ""}
StartsWithHttp(title) == title \in {"http://stream"}

RadioSelf ==
    [current_index |-> current_index, playing |-> playing, paused |-> paused,
     mpv_proc |-> mpv_proc, mpv_sock |-> mpv_sock, meta_title |-> meta_title,
     orphans |-> orphans, app_stack |-> app_stack, fault |-> None,
     sent |-> << >>, launched |-> << >>, connected |-> NotTried]

RadioCommit(name, r) ==
    /\ current_index' = r.current_index
    /\ playing' = r.playing
    /\ paused' = r.paused
    /\ mpv_proc' = r.mpv_proc
    /\ mpv_sock' = r.mpv_sock
    /\ meta_title' = r.meta_title
    /\ orphans' = r.orphans
    /\ r.orphans.audio <= MaxOrphans
    /\ app_stack' = r.app_stack
    /\ fault' = r.fault
    /\ sent' = r.sent
    /\ launched' = r.launched
    /\ connected' = r.connected
    /\ op' = name
    /\ playlist' = Fresh.playlist /\ shuffle' = Fresh.shuffle
    /\ view' = Fresh.view /\ return_view' = Fresh.return_view
    /\ opened_from_file' = Fresh.opened_from_file
    /\ pl_tracks' = Fresh.pl_tracks /\ pl_name' = Fresh.pl_name
    /\ video_proc' = Fresh.video_proc
    /\ cached_pos' = Fresh.cached_pos /\ cached_dur' = Fresh.cached_dur
    /\ UNCHANGED << qvars, tvars, store >>

\* RadioApp._mpv_connect
radio_mpv_connect(ready_at) ==
    IF ready_at <= RadioConnectAttempts
    THEN [attempts |-> ready_at, ok |-> TRUE]
    ELSE [attempts |-> RadioConnectAttempts, ok |-> FALSE]

\* RadioApp._stop; timeout_expired: wait(timeout=2) raised TimeoutExpired
radio_stop(r, timeout_expired) ==
    LET r1 == [r EXCEPT !.mpv_sock = None]
        r2 == IF r1.mpv_proc # None
              THEN [r1 EXCEPT !.orphans.audio =
                                  IF r1.mpv_proc = "running" /\ timeout_expired
                                  THEN @ + 1 ELSE @,
                              !.mpv_proc = None]
              ELSE r1
    IN [r2 EXCEPT !.playing = FALSE, !.paused = FALSE, !.meta_title = ""]

RadioPlayInputs ==
    [spawn_ok : BOOLEAN,
     ready_at : {1, RadioConnectAttempts, RadioConnectAttempts + 1},
     timeout_expired : BOOLEAN, timeout_expired2 : BOOLEAN]

RadioPlayInputsFor(r) ==
    {inp \in RadioPlayInputs :
        /\ inp.timeout_expired => r.mpv_proc = "running"
        /\ inp.timeout_expired2 => inp.spawn_ok /\ inp.ready_at > RadioConnectAttempts
        /\ ~inp.spawn_ok => inp.ready_at = 1}

\* RadioApp._play
radio_play(r, index, inp) ==
    IF index < 0 \/ index >= Len(STATIONS) THEN r
    ELSE
    LET r1 == [radio_stop(r, inp.timeout_expired) EXCEPT !.current_index = index]
        r2 == [r1 EXCEPT !.launched = Append(@, STATIONS[index + 1])]
    IN IF ~inp.spawn_ok
       THEN [r2 EXCEPT !.fault = "FileNotFoundError"]
       ELSE LET c == radio_mpv_connect(inp.ready_at)
                r3 == [r2 EXCEPT !.mpv_proc = "running", !.connected = c]
            IN IF c.ok
               THEN [r3 EXCEPT !.mpv_sock = "open", !.playing = TRUE,
                               !.paused = FALSE, !.meta_title = ""]
               ELSE radio_stop(r3, inp.timeout_expired2)

\* RadioApp._toggle_pause
radio_toggle_pause(r, send_ok) ==
    IF ~r.playing THEN r
    ELSE [_mpv_send(r, <<"cycle", "pause">>, send_ok) EXCEPT !.paused = ~@]

\* _switch_station without the modulo: the variant C26 is tested against
radio_switch_station_no_wrap(r, delta, inp) ==
    radio_play(r, r.current_index + delta, inp)

\* RadioApp._switch_station
radio_switch_station(r, delta, inp) ==
    radio_play(r, (r.current_index + delta) % Len(STATIONS), inp)

\* RadioApp.update; due: more than 3 seconds since _meta_query_time
radio_update(r, due, kind, title) ==
    LET r1 == IF r.playing /\ r.mpv_proc # None /\ Polled(r.mpv_proc)
              THEN [r EXCEPT !.mpv_sock = None, !.mpv_proc = None,
                             !.playing = FALSE, !.paused = FALSE,
                             !.meta_title = ""]
              ELSE r
    IN IF r1.playing /\ r1.mpv_sock # None /\ due
       THEN LET r2 == _mpv_get(r1, "media-title", kind)
                got == IF kind = "data" THEN title ELSE ""
            IN IF r2.fault # None THEN r2
               ELSE IF got # "" /\ ~StartsWithHttp(got)
                    THEN [r2 EXCEPT !.meta_title = got]
                    ELSE r2
       ELSE r1

RadioActive == fault = None /\ Top(app_stack) = "radio"

\* RadioApp.handle_input, CONFIRM
RadioConfirm ==
    /\ RadioActive
    /\ IF playing
       THEN \E send_ok \in BOOLEAN :
              RadioCommit("radio_toggle_pause", radio_toggle_pause(RadioSelf, send_ok))
       ELSE \E inp \in RadioPlayInputsFor(RadioSelf) :
              RadioCommit("radio_play", radio_play(RadioSelf, current_index, inp))

\* RadioApp.handle_input, LEFT / PAGE_UP (delta -1), RIGHT / PAGE_DOWN (delta 1)
RadioSwitch ==
    /\ RadioActive
    /\ \E delta \in {-1, 1} : \E inp \in RadioPlayInputsFor(RadioSelf) :
         RadioCommit(IF delta = 1 THEN "radio_next" ELSE "radio_prev",
                     radio_switch_station(RadioSelf, delta, inp))

\* RadioApp.handle_input, BACK: _stop, then System.back and on_exit
RadioBack ==
    /\ RadioActive
    /\ \E t1 \in BOOLEAN :
         RadioCommit("radio_back",
                     LET r1 == radio_stop(RadioSelf, t1)
                     IN IF Len(r1.app_stack) > 1
                        THEN [radio_stop(r1, FALSE) EXCEPT
                                  !.app_stack = SubSeq(@, 1, Len(@) - 1)]
                        ELSE r1)

\* System.run: update of the active app
RadioUpdateTick ==
    /\ RadioActive
    /\ \E due \in BOOLEAN :
       \E kind \in (IF due /\ playing /\ mpv_proc = "running"
                    THEN QueryKinds ELSE {"none"}) :
       \E title \in (IF kind = "data" THEN TitleReplies ELSE {""}) :
         RadioCommit("radio_update", radio_update(RadioSelf, due, kind, title))

\* System.run, Action.QUIT
RadioShutdown ==
    /\ RadioActive
    /\ \E t1 \in BOOLEAN :
         RadioCommit("radio_shutdown",
                     [radio_stop(RadioSelf, t1) EXCEPT !.app_stack = << >>])

\* Shell: open the radio (RadioApp.__init__)
ShellOpenRadio ==
    /\ ShellActive
    /\ RadioCommit("open_radio",
                   open_app([RadioSelf EXCEPT !.current_index = 0,
                                              !.playing = FALSE,
                                              !.paused = FALSE,
                                              !.mpv_proc = None,
                                              !.mpv_sock = None,
                                              !.meta_title = ""],
                            "radio"))

\* System.run, Action.QUIT while the shell is the only app
ShellShutdown ==
    /\ ShellActive
    /\ app_stack' = << >>
    /\ op' = "shell_shutdown"
    /\ sent' = << >> /\ launched' = << >> /\ connected' = NotTried
    /\ UNCHANGED << playlist, current_index, playing, paused, shuffle, view,
                    return_view, opened_from_file, pl_tracks, pl_name, mpv_proc,
                    mpv_sock, video_proc, cached_pos, cached_dur, orphans,
                    meta_title, fault, qvars, tvars, store >>

Next ==
    \/ ShellOpenMediaPlayer \/ ShellOpenFile \/ ShellOpenRadio \/ ShellShutdown
    \/ LibraryConfirm \/ LibraryConfirmNothing \/ LibraryBack \/ LibraryMenu
    \/ TracksConfirm \/ TracksBack
    \/ PlaylistConfirm \/ PlaylistBack \/ PlaylistSystem
    \/ NowPlayingConfirm \/ NowPlayingBack \/ NowPlayingMenu
    \/ NowPlayingShuffle \/ NowPlayingSkip
    \/ NowPlayingSeekBack \/ NowPlayingSeekForward
    \/ UpdateTick \/ Draw \/ Shutdown
    \/ RadioConfirm \/ RadioSwitch \/ RadioBack \/ RadioUpdateTick
    \/ RadioShutdown
    \/ AudioProcExit \/ VideoProcExit \/ OrphanExit

Spec == Init /\ [][Next]_vars

\* ------------------------------------------------------------------------
\* One _mpv_get call, statement by statement (MediaPlayerApp._mpv_get and
\* RadioApp._mpv_get are the same code), against an arbitrary peer
\* ------------------------------------------------------------------------

\* the clock advances in steps of half the query timeout
TickLen == QueryTimeout \div 2
Epoch == RidModulus - QueryTimeout
MaxNow == Epoch + MaxTicks * TickLen

\* a line the engine writes: a reply object, an event object (no
\* request_id), bytes that are not JSON, or JSON that is not an object
Line(k, rid, err, data) == [k |-> k, rid |-> rid, error |-> err, data |-> data]
Data == {3}
PeerLines ==
    {Line("reply", r, e, d) :
        r \in asked, e \in {"success", "property unavailable"}, d \in Data}
    \cup {Line("event", 0, "", 0), Line("garbage", 0, "", 0),
          Line("nonobject", 0, "", 0)}

\* the for loop over buf.split(b"\n"): the first line that ends the call,
\* either by returning data (a reply object with this rid and error
\* "success") or by raising (json.loads gave a value without .get)
RECURSIVE ScanFrom(_, _, _)
ScanFrom(buf, i, rid) ==
    IF i > Len(buf) THEN [end |-> "none", data |-> NoValue]
    ELSE LET line == buf[i]
         IN CASE line.k = "garbage" -> ScanFrom(buf, i + 1, rid)
              [] line.k = "nonobject" -> [end |-> "AttributeError", data |-> NoValue]
              [] line.k = "event" -> ScanFrom(buf, i + 1, rid)
              [] OTHER ->
                   IF line.rid = rid /\ line.error = "success"
                   THEN [end |-> "return", data |-> line.data]
                   ELSE ScanFrom(buf, i + 1, rid)

\* the scan that takes the value of the first reply that carries a value,
\* whatever its request_id: the variant C19 is tested against
ScanAnyReply(buf, rid) ==
    IF \E i \in 1..Len(buf) : buf[i].k = "reply" /\ buf[i].error = "success"
    THEN [end |-> "return",
          data |-> buf[CHOOSE i \in 1..Len(buf) :
                           buf[i].k = "reply" /\ buf[i].error = "success"].data]
    ELSE ScanFrom(buf, 1, rid)

Scan(buf, rid) == ScanFrom(buf, 1, rid)

\* the player variables a query does not touch
QueryFrame ==
    UNCHANGED << playlist, current_index, playing, paused, shuffle, view,
                 return_view, opened_from_file, pl_tracks, pl_name, mpv_proc,
                 video_proc, cached_pos, cached_dur, orphans, meta_title,
                 app_stack, launched, connected, tvars, store >>

\* _mpv_get is called: if not self._mpv_sock: return None
QueryStart ==
    /\ q_pc = "idle" /\ fault = None /\ now <= MaxNow
    /\ op' = "mpv_get" /\ sent' = << >> /\ q_buf' = << >>
    /\ IF mpv_sock = None
       THEN q_pc' = "idle" /\ q_result' = NoValue
       ELSE q_pc' = "drain" /\ UNCHANGED q_result
    /\ UNCHANGED << mpv_sock, fault, now, peer, inbox, asked, q_rid,
                    q_deadline >>
    /\ QueryFrame

\* while True: self._mpv_sock.recv(4096), on the non-blocking socket:
\* buffered bytes are returned and discarded; with nothing buffered the
\* call raises BlockingIOError (peer up) or another OSError (connection
\* reset), which ends the loop, or returns b"" (peer closed its end), which
\* does not
QueryDrain ==
    /\ q_pc = "drain"
    /\ IF inbox # << >>
       THEN inbox' = << >> /\ q_pc' = "drain"
       ELSE /\ UNCHANGED inbox
            /\ q_pc' = IF peer = "closed" THEN "drain" ELSE "send"
    /\ UNCHANGED << mpv_sock, fault, op, sent, now, peer, asked, q_rid,
                    q_deadline, q_buf, q_result >>
    /\ QueryFrame

\* rid = int(time.time() * 10000) % 99999; sendall; settimeout; deadline.
\* sendall raises OSError when the peer is gone (or, send_ok false, when
\* the socket buffer is full)
QuerySend ==
    /\ q_pc = "send"
    /\ \E send_ok \in BOOLEAN :
         LET rid == now % RidModulus
             ok == send_ok /\ peer = "up"
         IN /\ q_rid' = rid
            /\ sent' = Append(sent, [api |-> "get", cmd |-> <<"get_property">>,
                                     ok |-> ok])
            /\ IF ok
               THEN /\ asked' = asked \cup {rid}
                    /\ q_deadline' = now + QueryTimeout
                    /\ q_buf' = << >>
                    /\ q_pc' = "wait"
               ELSE /\ q_pc' = "finish"
                    /\ UNCHANGED << asked, q_deadline, q_buf >>
    /\ UNCHANGED << mpv_sock, fault, op, now, peer, inbox, q_result >>
    /\ QueryFrame

\* one iteration of: while time.time() < deadline: chunk = recv(4096) ...
\* The blocking recv returns the buffered lines, or b"" when the peer has
\* closed, or raises OSError on a reset connection; with nothing to read
\* it blocks until the timeout, which is not before the deadline.
QueryWait ==
    /\ q_pc = "wait"
    /\ IF now >= q_deadline
       THEN q_pc' = "finish" /\ UNCHANGED << inbox, q_buf, q_result, fault >>
       ELSE IF inbox # << >>
       THEN /\ Len(q_buf) + Len(inbox) <= MaxBuf
            /\ inbox' = << >>
            /\ q_buf' = q_buf \o inbox
            /\ LET found == Scan(q_buf \o inbox, q_rid)
               IN CASE found.end = "return" ->
                         q_result' = found.data /\ q_pc' = "idle"
                         /\ UNCHANGED fault
                    [] found.end = "AttributeError" ->
                         fault' = "AttributeError" /\ q_pc' = "raised"
                         /\ UNCHANGED q_result
                    [] OTHER ->
                         q_pc' = "wait" /\ UNCHANGED << q_result, fault >>
       ELSE /\ peer # "up"
            /\ q_pc' = "finish"
            /\ UNCHANGED << inbox, q_buf, q_result, fault >>
    /\ UNCHANGED << mpv_sock, op, sent, now, peer, asked, q_rid, q_deadline >>
    /\ QueryFrame

\* setblocking(False); return None
QueryFinish ==
    /\ q_pc = "finish"
    /\ q_pc' = "idle" /\ q_result' = NoValue
    /\ UNCHANGED << mpv_sock, fault, op, sent, now, peer, inbox, asked,
                    q_rid, q_deadline, q_buf >>
    /\ QueryFrame

QueryStep == QueryDrain \/ QuerySend \/ QueryWait \/ QueryFinish

\* the engine writes a line
PeerSend ==
    /\ peer = "up" /\ mpv_sock # None /\ Len(inbox) < MaxInbox
    /\ \E line \in PeerLines : inbox' = Append(inbox, line)
    /\ UNCHANGED << mpv_sock, fault, op, sent, now, peer, asked, q_pc, q_rid,
                    q_deadline, q_buf, q_result >>
    /\ QueryFrame

\* the engine closes its end of the socket, or the connection breaks
PeerGone ==
    /\ peer = "up" /\ mpv_sock # None
    /\ peer' \in {"closed", "reset"}
    /\ UNCHANGED << mpv_sock, fault, op, sent, now, inbox, asked, q_pc, q_rid,
                    q_deadline, q_buf, q_result >>
    /\ QueryFrame

\* time passes
Tick ==
    /\ now + TickLen <= MaxNow \/ (q_pc = "wait" /\ now < q_deadline)
    /\ now' = now + TickLen
    /\ UNCHANGED << mpv_sock, fault, op, sent, peer, inbox, asked, q_pc,
                    q_rid, q_deadline, q_buf, q_result >>
    /\ QueryFrame

\* a session with its channel open, or with the channel already set to None
QueryInit ==
    /\ \E channel \in {"open", None} :
         Constructed([Fresh EXCEPT !.app_stack = <<"shell", "mediaplayer">>,
                                   !.playlist = << Track("music", 1) >>,
                                   !.current_index = 0,
                                   !.playing = TRUE,
                                   !.mpv_proc = "running",
                                   !.mpv_sock = channel,
                                   !.view = VIEW_NOW_PLAYING])
    /\ QueryIdle(Epoch) /\ NoEstimate /\ StoreAsFound

QueryNext == QueryStart \/ QueryStep \/ PeerSend \/ PeerGone \/ Tick

SpecQuery == QueryInit /\ [][QueryNext]_vars

\* the interpreter keeps executing the call, and time keeps passing
SpecQueryFair == SpecQuery /\ WF_vars(QueryStep) /\ WF_vars(Tick)

\* ------------------------------------------------------------------------
\* Advance (_next_index) applied to every queue and cursor: the player is
\* in the now-playing view of a queue of n audio tracks with track c
\* playing, as CONFIRM in the track list of a folder of n tracks leaves it
\* ------------------------------------------------------------------------

\* longest queue
MaxLen == 3

TrackNames == << "t1.mp3", "t2.mp3", "t3.mp3", "t4.mp3", "t5.mp3", "t6.mp3" >>
Queue(n) == [i \in 1..n |-> File("music", TrackNames[i], ".mp3", FALSE)]

AdvanceInit ==
    /\ \E n \in 1..MaxLen : \E c \in 0..(n - 1) : \E s \in BOOLEAN :
         Constructed([Fresh EXCEPT !.app_stack = <<"shell", "mediaplayer">>,
                                   !.playlist = Queue(n),
                                   !.current_index = c,
                                   !.shuffle = s,
                                   !.playing = TRUE,
                                   !.mpv_proc = "running",
                                   !.mpv_sock = "open",
                                   !.view = VIEW_NOW_PLAYING,
                                   !.return_view = VIEW_TRACKS])
    /\ QueryIdle(0) /\ NoEstimate /\ StoreAsFound

AdvanceNext ==
    \/ NowPlayingSkip
    \/ NowPlayingShuffle
    \/ UpdateTick
    \/ TracksConfirm
    \/ AudioProcExit
    \/ OrphanExit

SpecNext == AdvanceInit /\ [][AdvanceNext]_vars

TypeOK ==
    /\ current_index \in -1..(Len(STATIONS) - 1)
    /\ playing \in BOOLEAN /\ paused \in BOOLEAN /\ shuffle \in BOOLEAN
    /\ view \in 0..3 /\ return_view \in 0..2
    /\ mpv_proc \in {None, "running", "exited"}
    /\ video_proc \in {None, "running", "exited"}
    /\ mpv_sock \in {None, "open"}
    /\ orphans.audio \in 0..MaxOrphans /\ orphans.video \in 0..MaxOrphans

\* ------------------------------------------------------------------------
\* Claims
\* ------------------------------------------------------------------------

RadioOps ==
    {"open_radio", "radio_toggle_pause", "radio_play", "radio_next",
     "radio_prev", "radio_back", "radio_update", "radio_shutdown"}

\* C1: in the media player the cursor current_index is -1 or a valid index
\* into the working queue, after any sequence of operations
C1_CursorInRange ==
    Top(app_stack) = "mediaplayer"
        => \/ current_index = -1
           \/ (0 <= current_index /\ current_index < Len(playlist))

\* C2: no two engine processes started by the player are alive at once
C2_OneEngineProcess == AliveCount(Self) <= 1

Idle(r) ==
    /\ r.mpv_proc = None /\ r.video_proc = None /\ r.mpv_sock = None
    /\ ~r.playing /\ ~r.paused
    /\ r.cached_pos = 0 /\ r.cached_dur = 0

RadioIdle(r) ==
    /\ r.mpv_proc = None /\ r.mpv_sock = None
    /\ ~r.playing /\ ~r.paused /\ r.meta_title = ""

StopOps ==
    {"library_back", "now_playing_menu", "shutdown", "radio_back",
     "radio_shutdown"}

\* C3: Stop called in any state raises nothing and leaves the player Idle,
\* and a second Stop right after it raises nothing and changes nothing
\* (media player and radio); the handlers that end with Stop leave the
\* player Idle
C3_StopIdempotent ==
    /\ \A t1, t2 \in BOOLEAN :
         LET r1 == _stop(Self, t1)
             r2 == _stop(r1, t2)
         IN Idle(r1) /\ r1.fault = None /\ r2 = r1
    /\ \A t1, t2 \in BOOLEAN :
         LET r1 == radio_stop(RadioSelf, t1)
             r2 == radio_stop(r1, t2)
         IN RadioIdle(r1) /\ r1.fault = None /\ r2 = r1
    /\ op \in StopOps => Idle(Self) /\ meta_title = "" /\ fault = None

\* a handler that stopped twice (BACK in the library: _stop, then on_exit)
\* and had a live engine to tear down
C3_Witness ==
    op = "library_back" /\ Top(app_stack) = "shell" /\ orphans.audio = 1

\* C4: with shuffle off, the tick that finds the audio process of the track
\* at cursor i exited while playing drops the session and starts track i+1
\* when there is one, and otherwise ends playback with the cursor still at i
C4_AutoAdvance ==
    [][ (/\ op' = "update"
         /\ playing /\ mpv_proc = "exited" /\ ~shuffle
         /\ 0 <= current_index /\ current_index < Len(playlist))
        => IF current_index + 1 < Len(playlist)
           THEN /\ current_index' = current_index + 1
                /\ launched' = << playlist[current_index + 2] >>
                /\ mpv_proc' # "exited"
           ELSE /\ current_index' = current_index
                /\ ~playing' /\ ~paused'
                /\ mpv_proc' = None /\ mpv_sock' = None
                /\ launched' = << >>
                /\ view' = return_view ]_vars

\* the tick advanced a three-track queue from track 0 to track 1
C4_Witness ==
    /\ op = "update" /\ Len(playlist) = 3 /\ current_index = 1
    /\ launched = << playlist[2] >> /\ playing /\ mpv_proc = "running"

\* the direction of the Advance a handler made
DirectionOf(name) == IF name = "prev" THEN -1 ELSE 1

\* C5: with shuffle off, Advance(direction) from cursor c gives c + direction
\* when that is an index of the queue and 'no next track' otherwise, at
\* both ends; Next and Prev then play that track, or do nothing
C5_AdvanceNoWrap ==
    [][ (op' \in {"next", "prev"} /\ ~shuffle)
        => LET d == DirectionOf(op')
               c == current_index
               want == IF 0 <= c + d /\ c + d < Len(playlist)
                       THEN c + d ELSE NoNext
           IN /\ _next_index(Self, d, 0) = want
              /\ IF want = NoNext
                 THEN current_index' = c /\ launched' = << >>
                 ELSE /\ current_index' = want
                      /\ launched' = << playlist[want + 1] >> ]_vars

\* Next at the last track of a three-track queue did nothing
C5_Witness ==
    /\ op = "next" /\ ~shuffle /\ Len(playlist) = 3 /\ current_index = 2
    /\ launched = << >> /\ playing

\* C6: with shuffle on and a non-empty queue, Advance gives an index of the
\* queue, never the current one when the queue has two tracks or more, and
\* 0 when it has one; Next, Prev and auto-advance then play that track
C6_ShuffleAdvance ==
    [][ (/\ shuffle /\ playlist # << >>
         /\ \/ op' \in {"next", "prev"}
            \/ op' = "update" /\ playing /\ mpv_proc = "exited")
        => LET n == Len(playlist)
               c == current_index
           IN /\ \A pick \in Picks(n, c, shuffle) :
                   LET nxt == _next_index(Self, DirectionOf(op'), pick)
                   IN /\ nxt \in 0..(n - 1)
                      /\ n >= 2 => nxt # c
                      /\ n = 1 => nxt = 0
              /\ current_index' \in 0..(n - 1)
              /\ n >= 2 => current_index' # c
              /\ n = 1 => current_index' = 0
              /\ launched' = << playlist[current_index' + 1] >> ]_vars

\* shuffled Next on a queue of one track played that track again
C6_Witness ==
    /\ op = "next" /\ shuffle /\ Len(playlist) = 1 /\ current_index = 0
    /\ launched = << playlist[1] >> /\ playing

\* the call that ended last saw a reply with its request_id and error
\* "success"
Answered ==
    \E i \in 1..Len(q_buf) :
        /\ q_buf[i].k = "reply" /\ q_buf[i].rid = q_rid
        /\ q_buf[i].error = "success"

\* C7: _mpv_get raises nothing, and returns None unless a reply with its
\* request_id and error "success" arrived, whatever the peer writes
C7_QueryNoneNeverRaises ==
    /\ fault = None
    /\ q_pc # "raised"
    /\ (q_pc = "idle" /\ op = "mpv_get" /\ ~Answered) => q_result = NoValue

\* C8: a call of _mpv_get that is draining the socket when the engine has
\* closed its end leaves the drain loop
C8_QueryTerminates ==
    (q_pc = "drain" /\ peer = "closed") ~> (q_pc # "drain")

SendOnlyOps == {"seek_back", "seek_forward", "radio_toggle_pause"}

\* C9: a failed send of a command sets the channel to None and is the last
\* thing written by its handler; while the channel is None nothing is sent
\* or queried, and only a Play (a launch) makes a channel again; no handler
\* that only sends raises
C9_SendFailureInvalidates ==
    [][ /\ \A i \in 1..Len(sent') :
             (sent'[i].api = "send" /\ ~sent'[i].ok)
                 => i = Len(sent') /\ mpv_sock' = None
        /\ mpv_sock = None => sent' = << >>
        /\ (mpv_sock = None /\ mpv_sock' # None) => launched' # << >>
        /\ op' \in SendOnlyOps => fault' = None ]_vars

\* a session whose channel was invalidated, and a later send that wrote nothing
C9_Witness ==
    /\ op = "seek_back" /\ playing /\ mpv_proc = "running"
    /\ mpv_sock = None /\ sent = << >>

\* C10: an audio track or a station is playing after a launch only if the
\* connect succeeded within the attempts allowed (ConnectAttempts in the
\* media player, RadioConnectAttempts in the radio); when every attempt
\* failed the handler ends with no process handle, no channel and playing
\* false
C10_PlayingOnlyIfConnected ==
    [][ (launched' # << >> /\ (op' \in RadioOps \/ ~IsVideo(launched'[1])))
        => LET limit == IF op' \in RadioOps THEN RadioConnectAttempts
                        ELSE ConnectAttempts
           IN /\ playing' => /\ connected'.ok
                             /\ connected'.attempts <= limit
                             /\ mpv_sock' = "open" /\ mpv_proc' = "running"
              /\ (connected'.attempts > 0 /\ ~connected'.ok)
                    => /\ connected'.attempts = limit
                       /\ mpv_proc' = None /\ mpv_sock' = None
                       /\ ~playing' ]_vars

\* CONFIRM in the track list launched an engine whose socket never accepted
C10_Witness ==
    /\ op = "tracks_confirm" /\ launched # << >>
    /\ connected = [attempts |-> ConnectAttempts, ok |-> FALSE]
    /\ ~playing /\ mpv_proc = None /\ mpv_sock = None

\* C11: a failure to launch the engine executable is absorbed by Play: no
\* handler of the media player or the radio ends with the FileNotFoundError
\* that Popen raised
C11_SpawnFailureAbsorbed == fault # "FileNotFoundError"

\* ------------------------------------------------------------------------
\* Play (_play) applied to every queue and every integer index around it:
\* the player shows the track list of a folder of n audio tracks, nothing
\* playing yet or track c playing
\* ------------------------------------------------------------------------

\* the indices _play is called with: two below the queue to two above it
PlayIndices == (0 - 2)..(MaxLen + 1)

PlayInit ==
    /\ \E n \in 0..MaxLen : \E c \in (0 - 1)..(n - 1) :
         Constructed([Fresh EXCEPT !.app_stack = <<"shell", "mediaplayer">>,
                                   !.playlist = Queue(n),
                                   !.current_index = c,
                                   !.playing = (c >= 0),
                                   !.mpv_proc = IF c >= 0 THEN "running" ELSE None,
                                   !.mpv_sock = IF c >= 0 THEN "open" ELSE None,
                                   !.view = IF c >= 0 THEN VIEW_NOW_PLAYING
                                            ELSE VIEW_TRACKS,
                                   !.return_view = VIEW_TRACKS])
    /\ QueryIdle(0) /\ NoEstimate /\ StoreAsFound

\* a call of _play(index)
PlayCall ==
    /\ Active
    /\ \E index \in PlayIndices : \E inp \in PlayInputsFor(Self) :
         Commit("play", _play(Self, index, inp))

PlayNext == PlayCall \/ AudioProcExit \/ OrphanExit

SpecPlay == PlayInit /\ [][PlayNext]_vars

\* index clamped into the bounds of a queue of n > 0 tracks
Clamp(index, n) == Max(0, Min(index, n - 1))

\* C12: Play(index) on a non-empty queue stops the session and starts the
\* track at index clamped into the queue, for every index; on an empty
\* queue it changes nothing
C12_PlayClamps ==
    [][ op' = "play"
        => /\ \A index \in PlayIndices : \A inp \in PlayInputsFor(Self) :
                LET r == _play(Self, index, inp)
                IN IF playlist = << >> THEN r = Self
                   ELSE LET want == Clamp(index, Len(playlist))
                        IN /\ r.current_index = want
                           /\ r.launched = << playlist[want + 1] >>
           /\ IF playlist = << >>
              THEN launched' = << >> /\ UNCHANGED current_index
              ELSE launched' = << playlist[current_index' + 1] >> ]_vars

\* ------------------------------------------------------------------------
\* The position estimator in time: one audio session, the clock, and the
\* calls that read or move the cached position.  Times and positions are
\* in units of 0.25 s.
\* ------------------------------------------------------------------------

\* now - self._last_query_tick > 0.5
ResyncInterval == 2

\* seek by 10 seconds
SeekStep == 40

\* latest time on the clock
MaxClock == 6

\* when _play started the session; like time.time(), more than the resync
\* interval after the zero _last_query_tick starts from
SessionStart == ResyncInterval + 1

\* _get_elapsed called at time now: the object after the call, the two
\* timestamps, the value returned, and whether time-pos was queried
TimedElapsed(r, kind, pos) ==
    LET due == now - last_query_tick > ResyncInterval
        asks == r.mpv_sock # None /\ due
        got == asks /\ MpvGetValue(r, kind, pos) # NoValue
        r1 == _get_elapsed(r, due, kind, pos)
    IN [r |-> r1,
        pqt |-> IF got THEN now ELSE pos_query_time,
        lqt |-> IF asks /\ r1.fault = None THEN now ELSE last_query_tick,
        ret |-> ElapsedValue(r, due, kind, pos, now - pos_query_time),
        asks |-> asks]

\* the outcomes of the time-pos query a call made now would see
ElapsedKinds(r) ==
    IF r.mpv_sock # None /\ now - last_query_tick > ResyncInterval
    THEN QueryKinds ELSE {"none"}

\* _draw_now_playing: elapsed = self._get_elapsed()
ElapsedCall ==
    /\ Active /\ view = VIEW_NOW_PLAYING
    /\ \E kind \in ElapsedKinds(Self) : \E pos \in PosReplies :
         LET c == TimedElapsed(Self, kind, pos)
         IN /\ CommitFields("elapsed", c.r)
            /\ pos_query_time' = c.pqt
            /\ last_query_tick' = c.lqt
            /\ e_ret' = c.ret
            /\ e_at' = now
            /\ e_gap' = IF e_at = NoValue THEN NoValue ELSE now - e_at
    /\ UNCHANGED << meta_title, store >>

\* _handle_now_playing, CONFIRM, in time: when the flag becomes paused the
\* position is sampled with _get_elapsed and stamped with the time
TimedTogglePause ==
    /\ Active /\ view = VIEW_NOW_PLAYING
    /\ \E send_ok \in BOOLEAN : \E pos \in PosReplies :
       \E kind \in (IF playing /\ ~paused /\ (send_ok \/ mpv_sock = None)
                    THEN ElapsedKinds(Self) ELSE {"none"}) :
         LET due == now - last_query_tick > ResyncInterval
             r1 == _toggle_pause(Self, send_ok, due, kind, pos)
             sampled == playing /\ r1.paused /\ r1.fault = None
             c == TimedElapsed([_mpv_send(Self, <<"cycle", "pause">>, send_ok)
                                    EXCEPT !.paused = TRUE], kind, pos)
         IN /\ CommitFields("toggle_pause",
                            IF sampled
                            THEN [r1 EXCEPT !.cached_pos = c.ret]
                            ELSE r1)
            /\ pos_query_time' = IF sampled THEN now ELSE pos_query_time
            /\ last_query_tick' = IF playing /\ r1.paused THEN c.lqt
                                  ELSE last_query_tick
    /\ e_at' = NoValue
    /\ UNCHANGED << meta_title, e_ret, e_gap, store >>

\* _handle_now_playing, LEFT (delta -SeekStep) and RIGHT (delta SeekStep)
TimedSeek ==
    /\ Active /\ view = VIEW_NOW_PLAYING
    /\ \E delta \in {0 - SeekStep, SeekStep} : \E send_ok \in BOOLEAN :
         /\ delta > 0 => cached_pos <= MaxPos
         /\ CommitFields(IF delta > 0 THEN "seek_forward" ELSE "seek_back",
                         [_mpv_send(Self, <<"seek", delta>>, send_ok) EXCEPT
                              !.cached_pos = Max(0, @ + delta)])
    /\ pos_query_time' = now
    /\ e_at' = NoValue
    /\ UNCHANGED << meta_title, last_query_tick, e_ret, e_gap, store >>

\* time passes
ClockTick ==
    /\ now < MaxClock
    /\ now' = now + 1
    /\ op' = "clock"
    /\ sent' = << >> /\ launched' = << >> /\ connected' = NotTried
    /\ UNCHANGED << playlist, current_index, playing, paused, shuffle, view,
                    return_view, opened_from_file, pl_tracks, pl_name, mpv_proc,
                    mpv_sock, video_proc, cached_pos, cached_dur, orphans,
                    meta_title, app_stack, fault, peer, inbox, asked, q_pc,
                    q_rid, q_deadline, q_buf, q_result, tvars, store >>

\* a session _play started at SessionStart, its channel open or already
\* invalidated by a failed send
ElapsedInit ==
    /\ \E channel \in {"open", None} :
         Constructed([Fresh EXCEPT !.app_stack = <<"shell", "mediaplayer">>,
                                   !.playlist = Queue(1),
                                   !.current_index = 0,
                                   !.playing = TRUE,
                                   !.mpv_proc = "running",
                                   !.mpv_sock = channel,
                                   !.view = VIEW_NOW_PLAYING,
                                   !.return_view = VIEW_TRACKS])
    /\ QueryIdle(SessionStart)
    /\ pos_query_time = SessionStart /\ last_query_tick = 0
    /\ e_ret = 0 /\ e_at = NoValue /\ e_gap = NoValue
    /\ StoreAsFound

ElapsedNext == ElapsedCall \/ TimedTogglePause \/ TimedSeek \/ ClockTick

SpecElapsed == ElapsedInit /\ [][ElapsedNext]_vars

\* C13: while playing and not paused, an elapsed() call that issues no
\* time-pos query, made after an earlier call with no seek and no pause
\* toggle in between, returns the earlier value plus the time that passed
\* between the two calls
C13_ElapsedAdvancesWithClock ==
    [][ (/\ op' = "elapsed" /\ fault' = None /\ sent' = << >>
         /\ e_at # NoValue /\ playing /\ ~paused)
        => /\ e_ret' >= e_ret
           /\ e_ret' - e_ret = now - e_at ]_vars

\* two calls one after the other with time passing between them, the
\* second one inside the resync interval of a query that got a position
C13_Witness ==
    /\ op = "elapsed" /\ sent = << >> /\ fault = None
    /\ playing /\ ~paused /\ mpv_sock = "open"
    /\ e_gap > 0 /\ e_at = now
    /\ pos_query_time = last_query_tick /\ e_ret = cached_pos + e_gap

\* a step wrote a 'duration' property query on the channel
AskedDuration(log) ==
    \E i \in 1..Len(log) :
        log[i].api = "get" /\ log[i].cmd = <<"get_property", "duration">>

\* C14: within one session duration() queries 'duration' at most once: a
\* draw that follows a draw which queried it does not query it again,
\* whatever the first query returned; and a positive cached duration does
\* not change while the session lasts
C14_DurationQueriedOnce ==
    [][ /\ (op = "draw" /\ AskedDuration(sent) /\ op' = "draw")
              => ~AskedDuration(sent')
        /\ (cached_dur > 0 /\ op' = "draw") => cached_dur' = cached_dur ]_vars

\* ------------------------------------------------------------------------
\* SpecStore: the playlist handlers of the media player over the playlists
\* directory.  Init draws the directory from the stores of at most two
\* files, each of any form and of at most MaxStored entries, and no handler
\* is followed that would store a longer list; the player has just been
\* opened from the shell's menu.
\* ------------------------------------------------------------------------

\* longest track list a playlist file holds
MaxStored == 2

StoreNames == {"mix", "road"}

\* entries a playlist file may hold at first: a path and the structured
\* record of that path
StoreEntries == {Track("music", 1), Record(Track("music", 1))}

SeqsUpTo(S, n) == UNION {[1..k -> S] : k \in 0..n}

Contents ==
    {Object(t) : t \in SeqsUpTo(StoreEntries, MaxStored)}
    \cup {[form |-> f, tracks |-> << >>] : f \in {"no_tracks", "array", "text"}}

Stores == UNION {[D -> Contents] : D \in SUBSET StoreNames}

\* what the on-screen keyboard can hand to its callback
KeyboardTexts == {"", " ", "mix", " road "}

\* str.strip
Strip(t) ==
    CASE t = " " -> ""
      [] t = " road " -> "road"
      [] OTHER -> t

\* track_path in tracks
Contains(tracks, track_path) == \E i \in 1..Len(tracks) : tracks[i] = track_path

\* list.pop(idx), as the list that is left
Pop(tracks, idx) ==
    [i \in 1..(Len(tracks) - 1) |-> IF i <= idx THEN tracks[i] ELSE tracks[i + 1]]

\* the outcome of a handler that may write the store
Same(st, r) == [r |-> r, st |-> st]

\* _add_track_to without the membership test: the variant C15 is tested
\* against
_add_track_to_always(st, r, name, track_path) ==
    LET l == load_playlist(st, name)
    IN IF l.fault # None THEN Same(st, [r EXCEPT !.fault = l.fault])
       ELSE [r |-> r, st |-> save_playlist(st, name, Append(l.tracks, track_path))]

\* MediaPlayerApp._add_track_to
_add_track_to(st, r, name, track_path) ==
    LET l == load_playlist(st, name)
    IN IF l.fault # None THEN Same(st, [r EXCEPT !.fault = l.fault])
       ELSE IF Contains(l.tracks, track_path) THEN Same(st, r)
       ELSE [r |-> r, st |-> save_playlist(st, name, Append(l.tracks, track_path))]

\* MediaPlayerApp._on_new_pl_with_track
_on_new_pl_with_track(st, r, text, track_path) ==
    IF text # "" /\ Strip(text) # ""
    THEN [r |-> r, st |-> save_playlist(st, Strip(text), << track_path >>)]
    ELSE Same(st, r)

\* MediaPlayerApp._on_new_playlist_name
_on_new_playlist_name(st, r, text) ==
    IF text # "" /\ Strip(text) # ""
    THEN LET st1 == save_playlist(st, Strip(text), << >>)
         IN [r |-> _load_library(st1, r), st |-> st1]
    ELSE Same(st, r)

\* MediaPlayerApp._do_delete_playlist
_do_delete_playlist(st, r, name) ==
    LET st1 == delete_playlist(st, name)
    IN [r |-> _load_library(st1, r), st |-> st1]

\* _on_rename_playlist without the delete_playlist call: the variant C17 is
\* tested against
_on_rename_keeps_old(st, r, text) ==
    IF text = "" \/ Strip(text) = "" THEN Same(st, r)
    ELSE LET new_name == Strip(text)
             l == load_playlist(st, r.pl_name)
         IN IF new_name = r.pl_name THEN Same(st, r)
            ELSE IF l.fault # None THEN Same(st, [r EXCEPT !.fault = l.fault])
            ELSE [r |-> [r EXCEPT !.pl_name = new_name],
                  st |-> save_playlist(st, new_name, l.tracks)]

\* MediaPlayerApp._on_rename_playlist
_on_rename_playlist(st, r, text) ==
    IF text = "" \/ Strip(text) = "" THEN Same(st, r)
    ELSE LET new_name == Strip(text)
             l == load_playlist(st, r.pl_name)
         IN IF new_name = r.pl_name THEN Same(st, r)
            ELSE IF l.fault # None THEN Same(st, [r EXCEPT !.fault = l.fault])
            ELSE [r |-> [r EXCEPT !.pl_name = new_name],
                  st |-> delete_playlist(save_playlist(st, new_name, l.tracks),
                                         r.pl_name)]

\* MediaPlayerApp._do_remove_track
_do_remove_track(st, r, idx) ==
    IF idx < Len(r.pl_tracks)
    THEN LET tracks == Pop(r.pl_tracks, idx)
             st1 == save_playlist(st, r.pl_name, tracks)
         IN [r |-> _load_playlist_detail(st1, [r EXCEPT !.pl_tracks = tracks],
                                         r.pl_name),
             st |-> st1]
    ELSE Same(st, r)

\* the end of a handler that may have written the store
CommitStore(name, c) ==
    /\ CommitFields(name, c.r)
    /\ store' = c.st
    /\ \A n \in DOMAIN c.st : Len(c.st[n].tracks) <= MaxStored
    /\ meta_title' = meta_title
    /\ UNCHANGED tvars

\* _handle_library, DELETE on a playlist row, and the dialog's confirm
LibraryDelete ==
    /\ Active /\ view = VIEW_LIBRARY
    /\ \E e \in LibraryEntries :
         /\ e[1] = "pl"
         /\ CommitStore("delete_playlist", _do_delete_playlist(store, Self, e[2]))

\* _handle_library, SYSTEM: the keyboard opens (the player gets on_exit) and
\* hands its text to _on_new_playlist_name
LibraryNewPlaylist ==
    /\ Active /\ view = VIEW_LIBRARY
    /\ \E text \in KeyboardTexts : \E t1 \in BOOLEAN :
         /\ t1 => mpv_proc = "running"
         /\ CommitStore("new_playlist",
                        _on_new_playlist_name(store, _stop(Self, t1), text))

\* _handle_tracks, MENU, and the menu's row of a saved playlist
TracksAddTo ==
    /\ Active /\ view = VIEW_TRACKS
    /\ \E idx \in 0..(Len(playlist) - 1) : \E name \in list_playlists(store) :
         CommitStore("add_track_to",
                     _add_track_to(store, Self, name, playlist[idx + 1]))

\* _handle_tracks, MENU, the menu's row "+ New playlist", and the keyboard
TracksAddNew ==
    /\ Active /\ view = VIEW_TRACKS
    /\ \E idx \in 0..(Len(playlist) - 1) :
       \E text \in KeyboardTexts : \E t1 \in BOOLEAN :
         /\ t1 => mpv_proc = "running"
         /\ CommitStore("new_pl_with_track",
                        _on_new_pl_with_track(store, _stop(Self, t1), text,
                                              playlist[idx + 1]))

\* _handle_playlist_detail, MENU, and the keyboard
PlaylistRename ==
    /\ Active /\ view = VIEW_PLAYLIST
    /\ \E text \in KeyboardTexts : \E t1 \in BOOLEAN :
         /\ t1 => mpv_proc = "running"
         /\ CommitStore("rename_playlist",
                        _on_rename_playlist(store, _stop(Self, t1), text))

\* _handle_playlist_detail, DELETE, and the dialog's confirm
PlaylistRemoveTrack ==
    /\ Active /\ view = VIEW_PLAYLIST
    /\ \E idx \in 0..(Len(pl_tracks) - 1) :
         CommitStore("remove_track", _do_remove_track(store, Self, idx))

StoreInit ==
    /\ store \in Stores
    /\ Constructed(_load_library(store, [Fresh EXCEPT !.app_stack =
                                                       <<"shell", "mediaplayer">>]))
    /\ QueryIdle(0) /\ NoEstimate

StoreNext ==
    \/ LibraryConfirm
    \/ LibraryDelete
    \/ LibraryNewPlaylist
    \/ TracksBack
    \/ TracksAddTo
    \/ TracksAddNew
    \/ PlaylistBack
    \/ PlaylistRename
    \/ PlaylistRemoveTrack

SpecStore == StoreInit /\ [][StoreNext]_vars

\* no path occurs twice in the track list
NoDuplicate(tracks) ==
    \A i, j \in 1..Len(tracks) : tracks[i] = tracks[j] => i = j

\* no stored playlist holds a path twice
DuplicateFree(st) == \A n \in DOMAIN st : NoDuplicate(load_playlist(st, n).tracks)

\* C15: adding a path a saved playlist already holds leaves the store as it
\* was, adding a path it does not hold appends the path once at the end, and
\* an add, a remove-track or a rename in a store where no playlist holds a
\* path twice leaves a store where no playlist holds a path twice
C15_AddIdempotent ==
    [][ /\ op' = "add_track_to"
           => /\ \A name \in list_playlists(store) : \A i \in 1..Len(playlist) :
                   LET old == load_playlist(store, name)
                       c == _add_track_to(store, Self, name, playlist[i])
                   IN old.fault = None
                      => /\ c.r = Self
                         /\ c.st = IF Contains(old.tracks, playlist[i]) THEN store
                                   ELSE save_playlist(store, name,
                                            old.tracks \o << playlist[i] >>)
              /\ \E name \in list_playlists(store) : \E i \in 1..Len(playlist) :
                   store' = _add_track_to(store, Self, name, playlist[i]).st
        /\ (/\ DuplicateFree(store)
            /\ op' \in {"add_track_to", "remove_track", "rename_playlist"})
           => DuplicateFree(store') ]_vars

\* a path was appended to a playlist that held other paths, none twice
C15_Witness ==
    /\ op = "add_track_to" /\ fault = None
    /\ DuplicateFree(store)
    /\ \E name \in DOMAIN store :
         LET tracks == load_playlist(store, name).tracks
         IN /\ Len(tracks) = 2
            /\ tracks[2] = Track("music", 2)

\* the file whose entries are the structured records of the paths
Structured(tracks) == Object([i \in 1..Len(tracks) |-> Record(tracks[i])])

\* every entry of the track list is a path string
IsPaths(tracks) == \A i \in 1..Len(tracks) : ~tracks[i].rec

\* C16: load_playlist gives a list of path strings for every file and does
\* not raise; a file of bare path strings and the file of the structured
\* records of the same paths load to the same track list; and opening a
\* playlist from the library raises nothing
C16_LoadNormalises ==
    [][ op' = "library_confirm"
        => /\ \A n \in DOMAIN store :
                LET l == load_playlist(store, n)
                IN /\ l.fault = None
                   /\ IsPaths(l.tracks)
                   /\ (store[n].form = "object" /\ IsPaths(store[n].tracks))
                      => load_playlist([m \in {n} |-> Structured(store[n].tracks)], n) = l
           /\ fault' = None ]_vars

\* C17: a rename of the open playlist to a different name that is not blank
\* leaves the new name stored with the track list the old name had and the
\* old name not stored; a rename to the same name or to a blank one leaves
\* the store as it was
C17_RenameMoves ==
    [][ op' = "rename_playlist"
        => /\ \A text \in KeyboardTexts :
                LET c == _on_rename_playlist(store, Self, text)
                    old == load_playlist(store, pl_name)
                IN IF Strip(text) = "" \/ Strip(text) = pl_name
                   THEN c.st = store
                   ELSE /\ old.fault = None
                        /\ Strip(text) \in list_playlists(c.st)
                        /\ load_playlist(c.st, Strip(text)) = old
                        /\ pl_name \notin list_playlists(c.st)
                        /\ c.r.pl_name = Strip(text)
           /\ \E text \in KeyboardTexts :
                /\ store' = _on_rename_playlist(store, Self, text).st
                /\ pl_name' = _on_rename_playlist(store, Self, text).r.pl_name ]_vars

\* the open playlist was renamed "road"; it holds tracks and the name "mix"
\* is stored no more
C17_Witness ==
    /\ op = "rename_playlist" /\ fault = None
    /\ pl_name = "road"
    /\ list_playlists(store) = {"road"}
    /\ load_playlist(store, "road").tracks = pl_tracks
    /\ Len(pl_tracks) = 2

\* ------------------------------------------------------------------------
\* SpecDetail: playback started from the playlist view, over every saved
\* playlist of at most MaxLen entries drawn from two files on disk and one
\* that is gone
\* ------------------------------------------------------------------------

DetailEntries == {Track("music", 1), Gone, Track("music/sub", 2)}

DetailInit ==
    /\ \E tracks \in SeqsUpTo(DetailEntries, MaxLen) :
         /\ store = [n \in {"mix"} |-> Object(tracks)]
         /\ Constructed([Fresh EXCEPT !.app_stack = <<"shell", "mediaplayer">>,
                                      !.pl_name = "mix",
                                      !.pl_tracks = tracks,
                                      !.view = VIEW_PLAYLIST])
    /\ QueryIdle(0) /\ NoEstimate

DetailNext ==
    \/ PlaylistConfirm
    \/ NowPlayingBack
    \/ AudioProcExit
    \/ OrphanExit

SpecDetail == DetailInit /\ [][DetailNext]_vars

\* the entries whose files exist on disk, in playlist order
Existing(tracks) == SelectSeq(tracks, IsFile)

\* queue position i (from 1) is the first that holds path p
FirstHolding(queue, i, p) ==
    /\ i \in 1..Len(queue)
    /\ queue[i] = p
    /\ \A j \in 1..(i - 1) : queue[j] # p

\* C18: playback started from a saved playlist at position k makes the queue
\* the entries whose files exist, in order, and starts the selected entry
\* at the first queue position that holds its path, or position 0 when the
\* file of the selected entry is missing; when no entry exists nothing changes
C18_PlayFromPlaylist ==
    [][ (op' = "playlist_confirm" /\ pl_tracks # << >>)
        => /\ \A k \in 0..(Len(pl_tracks) - 1) : \A inp \in PlayInputsFor(Self) :
                LET r == _play_from_playlist_detail(Self, k, inp)
                    queue == Existing(pl_tracks)
                    target == pl_tracks[k + 1]
                IN IF queue = << >> THEN r = Self
                   ELSE /\ r.playlist = queue
                        /\ IF IsFile(target)
                           THEN FirstHolding(queue, r.current_index + 1, target)
                           ELSE r.current_index = 0
                        /\ r.launched = << queue[r.current_index + 1] >>
           /\ IF Existing(pl_tracks) = << >>
              THEN /\ UNCHANGED << playlist, current_index, playing, paused,
                                   mpv_proc, mpv_sock, video_proc, view >>
                   /\ launched' = << >>
              ELSE /\ playlist' = Existing(pl_tracks)
                   /\ launched' = << playlist'[current_index' + 1] >>
                   /\ \E k \in 0..(Len(pl_tracks) - 1) :
                        IF IsFile(pl_tracks[k + 1])
                        THEN FirstHolding(playlist', current_index' + 1,
                                          pl_tracks[k + 1])
                        ELSE current_index' = 0 ]_vars

\* the third entry was started at queue position 1: the second entry's file
\* is gone and was left out of the queue
C18_Witness ==
    /\ op = "playlist_confirm"
    /\ pl_tracks = << Track("music", 1), Gone, Track("music/sub", 2) >>
    /\ playlist = << Track("music", 1), Track("music/sub", 2) >>
    /\ current_index = 1
    /\ launched = << Track("music/sub", 2) >>
    /\ playing

\* line is a reply to the request rid that carries a value
OwnReply(line, rid) ==
    line.k = "reply" /\ line.rid = rid /\ line.error = "success"

\* C19: a query returns a value only from a reply line that carries the
\* request_id this query sent and the error "success" (the first such
\* line); lines received before the request was sent are discarded and
\* no line of an earlier call is in the buffer the query scans
C19_OnlyOwnReply ==
    [][ /\ (q_pc = "wait" /\ q_pc' = "idle")
           => \E i \in 1..Len(q_buf') :
                /\ OwnReply(q_buf'[i], q_rid)
                /\ q_result' = q_buf'[i].data
                /\ \A j \in 1..(i - 1) : ~OwnReply(q_buf'[j], q_rid)
        /\ (q_pc = "wait" /\ q_pc' = "wait")
           => \A i \in 1..Len(q_buf') : ~OwnReply(q_buf'[i], q_rid)
        /\ (q_pc = "drain" /\ Len(inbox') < Len(inbox))
           => (inbox' = << >> /\ q_buf' = << >> /\ UNCHANGED q_result)
        /\ (q_pc = "send" /\ q_pc' = "wait") => q_buf' = << >>
        /\ (q_pc = "wait" /\ q_buf' # q_buf) => q_buf' = q_buf \o inbox ]_vars

\* a query returned the value of its own reply, which came after the late
\* reply to an earlier query
C19_Witness ==
    /\ op = "mpv_get" /\ q_pc = "idle" /\ fault = None
    /\ q_result = 3
    /\ Len(q_buf) = 2
    /\ q_buf[1].k = "reply" /\ q_buf[1].error = "success"
    /\ q_buf[1].rid # q_rid
    /\ OwnReply(q_buf[2], q_rid)
    /\ now >= Epoch + QueryTimeout

\* C20: within one session each query carries a request_id greater than
\* that of every query sent before it
C20_RidIncreasing ==
    [][ (q_pc = "send" /\ q_pc' = "wait")
        => \A r \in asked : q_rid' > r ]_vars

\* the step wrote "cycle pause" to the channel and sendall did not raise
PauseDelivered(log) ==
    \E i \in 1..Len(log) :
        log[i].api = "send" /\ log[i].cmd = <<"cycle", "pause">> /\ log[i].ok

\* C21: toggle-pause changes nothing when the player is not playing, and
\* whenever it flips the paused flag the same step delivered a "cycle pause"
\* command to the engine (media player and radio)
C21_PauseFlipsWithCommand ==
    [][ op' \in {"toggle_pause", "radio_toggle_pause"}
        => /\ ~playing => UNCHANGED << paused, playing, cached_pos, mpv_sock,
                                       mpv_proc, video_proc >>
           /\ paused' # paused => PauseDelivered(sent') ]_vars

\* the step wrote a get_property request to the channel
Queried(log) == \E i \in 1..Len(log) : log[i].api = "get"

\* C22: on the transition from playing to paused the cached position
\* becomes the extrapolated position of that moment (the cached position
\* plus the time since it was sampled) unless the step resynchronised, and
\* while paused _get_elapsed returns the cached position between resyncs
C22_PauseSnapshotsElapsed ==
    [][ /\ (/\ op' = "toggle_pause" /\ fault' = None /\ ~Queried(sent')
            /\ playing /\ ~paused /\ paused')
           => cached_pos' = cached_pos + (now - pos_query_time)
        /\ (/\ op' = "elapsed" /\ fault' = None /\ ~Queried(sent')
            /\ paused /\ paused')
           => e_ret' = cached_pos ]_vars

\* the step wrote a 'time-pos' property query on the channel
AskedPosition(log) ==
    \E i \in 1..Len(log) :
        log[i].api = "get" /\ log[i].cmd = <<"get_property", "time-pos">>

\* C23: _get_elapsed queries time-pos only when more than the resync
\* interval has passed since the last attempt, an attempt that returns
\* stamps _last_query_tick whether or not it obtained a value, and an
\* attempt that obtained none leaves the cached position and its timestamp
\* as they were
C23_ResyncGated ==
    [][ op' \in {"elapsed", "toggle_pause"}
        => /\ AskedPosition(sent')
              => /\ now - last_query_tick > ResyncInterval
                 /\ fault' = None => last_query_tick' = now
           /\ \A kind \in QueryKinds : \A pos \in PosReplies :
                LET c == TimedElapsed(Self, kind, pos)
                IN /\ AskedPosition(c.r.sent)
                      => (c.asks /\ now - last_query_tick > ResyncInterval)
                   /\ (c.asks /\ c.r.fault = None) => c.lqt = now
                   /\ (kind # "data" \/ ~c.asks)
                      => (c.r.cached_pos = cached_pos /\ c.pqt = pos_query_time) ]_vars

\* a call inside the interval that follows an attempt which obtained no
\* value: it queried nothing
C23_Witness ==
    /\ op = "elapsed" /\ fault = None /\ sent = << >>
    /\ mpv_sock = "open"
    /\ last_query_tick > pos_query_time
    /\ now - last_query_tick \in 1..ResyncInterval

\* the step wrote the 'quit' command on the channel
QuitSent(log) ==
    \E i \in 1..Len(log) : log[i].api = "send" /\ log[i].cmd = <<"quit">>

\* C24: Stop on a live audio session sends 'quit' on the channel before it
\* closes the channel and ends the process, and drops channel and handle
C24_StopSendsQuit ==
    [][ (op' \in StopOps /\ mpv_sock = "open" /\ mpv_proc = "running")
        => /\ QuitSent(sent')
           /\ mpv_sock' = None /\ mpv_proc' = None ]_vars

\* C25: a seek by delta writes the seek command with that delta on the
\* channel the session has, and moves the cached position by delta, to 0
\* when that would be negative; the cached position is never negative
C25_SeekClampsAtZero ==
    [][ /\ cached_pos >= 0 /\ cached_pos' >= 0
        /\ \A delta \in {-10, 10} :
             op' = (IF delta < 0 THEN "seek_back" ELSE "seek_forward")
             => /\ cached_pos' = (IF cached_pos + delta < 0 THEN 0
                                  ELSE cached_pos + delta)
                /\ mpv_sock # None
                   => (Len(sent') = 1 /\ sent'[1].api = "send"
                       /\ sent'[1].cmd = <<"seek", delta>>)
                /\ mpv_sock = None => sent' = << >> ]_vars

\* a seek back from a position under 10 seconds: the cache is at 0
C25_Witness ==
    /\ op = "seek_back" /\ fault = None /\ playing
    /\ cached_pos = 0 /\ pos_query_time = 0
    /\ Len(sent) = 1 /\ sent[1].cmd = <<"seek", -10>> /\ sent[1].ok
    /\ cached_dur > 0

\* C26: in the radio the cursor is an index into the station list; a switch
\* by delta moves it to (cursor + delta) mod N whether or not the station
\* starts, launches that station, and does what _play does on the stopped
\* player: the running session is torn down first
C26_StationWraps ==
    [][ /\ Top(app_stack') = "radio"
           => current_index' \in 0..(Len(STATIONS) - 1)
        /\ \A delta \in {-1, 1} :
             op' = (IF delta = 1 THEN "radio_next" ELSE "radio_prev")
             => LET want == IF current_index + delta < 0 THEN Len(STATIONS) - 1
                            ELSE IF current_index + delta >= Len(STATIONS) THEN 0
                            ELSE current_index + delta
                IN /\ current_index' = want
                   /\ launched' = << STATIONS[want + 1] >>
                   /\ \A inp \in RadioPlayInputsFor(RadioSelf) :
                        LET r == radio_switch_station(RadioSelf, delta, inp)
                            stopped == radio_stop(RadioSelf, inp.timeout_expired)
                        IN /\ r.current_index = want
                           /\ r.launched = << STATIONS[want + 1] >>
                           /\ r = radio_play(stopped, want,
                                             [inp EXCEPT !.timeout_expired = FALSE])
                           /\ r.mpv_proc = None => ~r.playing ]_vars

\* next from the last station went to the first, which failed to start
C26_Witness ==
    /\ op = "radio_next" /\ fault = None
    /\ Top(app_stack) = "radio"
    /\ current_index = 0
    /\ ~playing /\ mpv_proc = None
    /\ connected = [attempts |-> RadioConnectAttempts, ok |-> FALSE]

\* ------------------------------------------------------------------------
\* Leaving the active app (System.open_app, back, open_keyboard, shutdown):
\* the keyboard's session as two steps, the keyboard on top in between
\* ------------------------------------------------------------------------

\* open_keyboard without the on_exit of the app below: the variant C27 is
\* tested against
open_keyboard_no_exit(r, timeout_expired) == open_app(r, "keyboard")

\* System.open_keyboard: open_app(KeyboardApp), which first calls on_exit of
\* the app on top (MediaPlayerApp.on_exit is _stop)
open_keyboard(r, timeout_expired) == open_app(_stop(r, timeout_expired), "keyboard")

\* the callback the keyboard was given, which follows from the view it was
\* opened in
KeyboardCallback(st, r, text, track_path) ==
    CASE r.view = VIEW_LIBRARY -> _on_new_playlist_name(st, r, text)
      [] r.view = VIEW_TRACKS -> _on_new_pl_with_track(st, r, text, track_path)
      [] OTHER -> _on_rename_playlist(st, r, text)

\* _create_new_playlist (library, SYSTEM), _add_track_new (tracks, MENU and
\* the row "+ New playlist"), _handle_playlist_detail (MENU)
OpenKeyboard ==
    /\ Active
    /\ \/ view = VIEW_LIBRARY
       \/ view = VIEW_TRACKS /\ playlist # << >>
       \/ view = VIEW_PLAYLIST
    /\ \E t1 \in BOOLEAN :
         /\ t1 => mpv_proc = "running"
         /\ Commit("open_keyboard", open_keyboard(Self, t1))

\* KeyboardApp.handle_input, SYSTEM: callback(text), then System.back pops
\* the keyboard (its on_exit is the base no-op)
KeyboardSubmit ==
    /\ fault = None /\ Top(app_stack) = "keyboard"
    /\ \E text \in KeyboardTexts : \E idx \in 0..Max(0, Len(playlist) - 1) :
         LET c == KeyboardCallback(store, Self, text,
                      IF playlist = << >> THEN None ELSE playlist[idx + 1])
         IN CommitStore("keyboard_submit",
                IF c.r.fault # None THEN c
                ELSE [c EXCEPT !.r.app_stack = SubSeq(@, 1, Len(@) - 1)])

\* System.run, Action.QUIT while the keyboard is on top: shutdown pops the
\* keyboard, the player (on_exit is _stop) and the shell
KeyboardShutdown ==
    /\ fault = None /\ Top(app_stack) = "keyboard"
    /\ Commit("keyboard_shutdown", [_stop(Self, FALSE) EXCEPT !.app_stack = << >>])

LeaveStore == [n \in {"mix"} |-> Object(<< Track("music", 1) >>)]

LeaveInit ==
    /\ store = LeaveStore
    /\ Constructed(Fresh) /\ QueryIdle(0) /\ NoEstimate

LeaveNext ==
    \/ ShellOpenMediaPlayer \/ ShellOpenRadio \/ ShellShutdown
    \/ LibraryConfirm \/ LibraryBack
    \/ TracksConfirm \/ TracksBack
    \/ PlaylistConfirm \/ PlaylistBack
    \/ NowPlayingBack \/ NowPlayingMenu \/ Shutdown
    \/ RadioConfirm \/ RadioBack \/ RadioShutdown
    \/ AudioProcExit \/ VideoProcExit \/ OrphanExit
    \/ OpenKeyboard \/ KeyboardSubmit \/ KeyboardShutdown

SpecLeave == LeaveInit /\ [][LeaveNext]_vars

Players == {"mediaplayer", "radio"}

HoldsNothing ==
    mpv_proc = None /\ mpv_sock = None /\ video_proc = None /\ ~playing

\* C27: while the main loop is alive and the app on top of the stack is
\* neither the media player nor the radio (the shell after Back, the keyboard
\* opened on the player, the empty stack after shutdown), the player holds no
\* engine process handle and no channel and playing is false; so a session
\* is held only by the app on top
C27_InactiveHoldsNothing ==
    (fault = None /\ Top(app_stack) \notin Players) => HoldsNothing

\* the keyboard was opened on a player whose engine was running and outlived
\* the wait of _stop
C27_Witness ==
    /\ op = "open_keyboard" /\ Top(app_stack) = "keyboard"
    /\ orphans.audio > 0 /\ HoldsNothing

\* C28: in every reachable state of the media player and of the radio,
\* paused = TRUE implies playing = TRUE (also after a video process exits,
\* after auto-advance reaches the end of the queue and after a failed launch)
C28_PausedImpliesPlaying == paused => playing

\* the playlist n is in the store after the step and loads as it did before
Kept(n) == n \in DOMAIN store' /\ load_playlist(store', n) = load_playlist(store, n)

\* C29: creating a playlist (empty, or with one track) leaves every playlist
\* that already exists as it was, and renaming the open playlist leaves
\* every other playlist as it was
C29_OthersUntouched ==
    [][ /\ op' \in {"new_playlist", "new_pl_with_track"}
           => \A n \in DOMAIN store : Kept(n)
        /\ op' = "rename_playlist"
           => \A n \in DOMAIN store \ {pl_name} : Kept(n) ]_vars

\* ------------------------------------------------------------------------
\* Unattended playback: a queue of audio and video tracks with an audio
\* track playing, shuffle off, no input; every launch and connect succeeds
\* and the main loop keeps calling update
\* ------------------------------------------------------------------------

AutoEntries == {Track("music", 1), Track("music", 4)}

AutoInit ==
    /\ \E q \in SeqsUpTo(AutoEntries, MaxLen) : \E c \in 0..(Len(q) - 1) :
       \E rv \in {VIEW_LIBRARY, VIEW_TRACKS, VIEW_PLAYLIST} :
         /\ ~IsVideo(q[c + 1])
         /\ Constructed([Fresh EXCEPT !.app_stack = <<"shell", "mediaplayer">>,
                                      !.playlist = q,
                                      !.current_index = c,
                                      !.playing = TRUE,
                                      !.mpv_proc = "running",
                                      !.mpv_sock = "open",
                                      !.view = VIEW_NOW_PLAYING,
                                      !.return_view = rv])
    /\ QueryIdle(0) /\ NoEstimate /\ StoreAsFound

\* System.run calling update of the active app, every launch and connect of
\* the _play it makes succeeding at once
AutoUpdate ==
    /\ Active
    /\ \E inp \in {i \in PlayInputsFor(Self) :
                     /\ i.spawn_ok /\ i.ready_at = 1
                     /\ ~i.timeout_expired /\ ~i.timeout_expired2} :
         Commit("update", update(Self, 0, inp))

AutoNext == AutoUpdate \/ AudioProcExit \/ VideoProcExit

\* the main loop runs update every frame, and every launched engine process
\* eventually exits
SpecAuto ==
    /\ AutoInit /\ [][AutoNext]_vars
    /\ WF_vars(AutoUpdate) /\ WF_vars(AudioProcExit) /\ WF_vars(VideoProcExit)

\* the ended state the claim describes
Ended ==
    /\ ~playing /\ HoldsNothing
    /\ current_index = Len(playlist) - 1
    /\ view = return_view

\* C30: with shuffle off, no input and every launch and connect succeeding,
\* audio playback started at cursor i, every engine process eventually
\* exiting, eventually reaches the ended state (playing false, no session)
\* with the cursor at len(queue) - 1 and the view back at the view playback
\* was started from, each track end moving the cursor by exactly one (so
\* after len(queue) - i track ends)
C30_PlaysQueueToEnd ==
    /\ [][ (op' = "update" /\ current_index' # current_index)
           => current_index' = current_index + 1 ]_vars
    /\ (playing /\ mpv_proc = "running" /\ op = "boot") ~> Ended

====
